---------------------------- MODULE Spec2Model ----------------------------
(***************************************************************************)
(* The component model of target-lexicon (src/targets.rs): the identifier  *)
(* enums of a target triple, their Display / FromStr codecs, the custom    *)
(* vendor validation, and the derived attributes (endianness, pointer      *)
(* width, default binary format).                                          *)
(*                                                                         *)
(* Every function of the file is pure, so the state machine is a caller:   *)
(* from the idle state it calls one function fn on one input arg, the      *)
(* function's result is ret, and Return brings it back to idle.            *)
(*                                                                         *)
(* A Rust &str is a TLA+ string; its chars are the one-character strings   *)
(* SubSeq(s, i, i).  An enum variant without data is the string of its     *)
(* Rust name ("Armv8_1a"), a variant of Architecture, Vendor or            *)
(* OperatingSystem is a record with a tag.                                 *)
(***************************************************************************)
EXTENDS Integers, Sequences, FiniteSets, TLC

VARIABLES fn, args, rets

vars == <<fn, args, rets>>

-----------------------------------------------------------------------------
(* Result<T, ()> *)

Ok(v) == [ok |-> TRUE, val |-> v]

Err == [ok |-> FALSE]

\* The call did not return: it panicked.
Panicked == [ok |-> FALSE, panicked |-> TRUE]

-----------------------------------------------------------------------------
(* Option<T> *)

Some(v) == [some |-> TRUE, val |-> v]

None == [some |-> FALSE]

-----------------------------------------------------------------------------
(* The enums, lines 10-481 *)

\* enum ArmArchitecture without its last variant.
ArmArchitecture_NoThumbv8mMain ==
  {"Arm", "Armeb", "Armv4", "Armv4t", "Armv5t", "Armv5te", "Armv5tej",
   "Armv6", "Armv6j", "Armv6k", "Armv6z", "Armv6kz", "Armv6t2", "Armv6m",
   "Armv7", "Armv7a", "Armv7ve", "Armv7m", "Armv7r", "Armv7s", "Armv8",
   "Armv8a", "Armv8_1a", "Armv8_2a", "Armv8_3a", "Armv8_4a", "Armv8_5a",
   "Armv8mBase", "Armv8mMain", "Armv8r", "Armebv7r", "Thumbeb", "Thumbv6m",
   "Thumbv7a", "Thumbv7em", "Thumbv7m", "Thumbv7neon", "Thumbv8mBase"}

ArmArchitecture ==
  {"Arm", "Armeb", "Armv4", "Armv4t", "Armv5t", "Armv5te", "Armv5tej",
   "Armv6", "Armv6j", "Armv6k", "Armv6z", "Armv6kz", "Armv6t2", "Armv6m",
   "Armv7", "Armv7a", "Armv7ve", "Armv7m", "Armv7r", "Armv7s", "Armv8",
   "Armv8a", "Armv8_1a", "Armv8_2a", "Armv8_3a", "Armv8_4a", "Armv8_5a",
   "Armv8mBase", "Armv8mMain", "Armv8r", "Armebv7r", "Thumbeb", "Thumbv6m",
   "Thumbv7a", "Thumbv7em", "Thumbv7m", "Thumbv7neon", "Thumbv8mBase",
   "Thumbv8mMain"}

Aarch64Architecture ==
  {"Aarch64", "Aarch64be"}

Riscv32Architecture ==
  {"Riscv32", "Riscv32i", "Riscv32imac", "Riscv32imc"}

Riscv64Architecture ==
  {"Riscv64", "Riscv64gc", "Riscv64imac"}

X86_32Architecture ==
  {"I386", "I586", "I686"}

Mips32Architecture ==
  {"Mips", "Mipsel", "Mipsisa32r6", "Mipsisa32r6el"}

Mips64Architecture ==
  {"Mips64", "Mips64el", "Mipsisa64r6", "Mipsisa64r6el"}

\* A variant that carries no data.
Unit(t) == [tag |-> t]

\* A variant of Architecture that carries a sub-architecture.
Sub(t, a) == [tag |-> t, sub |-> a]

ArchitectureUnitTags ==
  {"Unknown", "AmdGcn", "Asmjs", "Hexagon", "Msp430", "Nvptx64", "Powerpc",
   "Powerpc64", "Powerpc64le", "S390x", "Sparc", "Sparc64", "Sparcv9",
   "Wasm32", "Wasm64", "X86_64"}

Architecture ==
  {Unit(t) : t \in ArchitectureUnitTags}
    \cup {Sub("Arm", a) : a \in ArmArchitecture}
    \cup {Sub("Aarch64", a) : a \in Aarch64Architecture}
    \cup {Sub("X86_32", a) : a \in X86_32Architecture}
    \cup {Sub("Mips32", a) : a \in Mips32Architecture}
    \cup {Sub("Mips64", a) : a \in Mips64Architecture}
    \cup {Sub("Riscv32", a) : a \in Riscv32Architecture}
    \cup {Sub("Riscv64", a) : a \in Riscv64Architecture}

\* CustomVendor: Owned(Box<String>) or Static(&'static str).
CustomVendorOf(r, t) == [repr |-> r, str |-> t]

CustomVendorReprs == {"Owned", "Static"}

as_str(cv) ==
  CASE cv.repr = "Owned" -> cv.str
    [] cv.repr = "Static" -> cv.str

VendorUnitTags ==
  {"Unknown", "Amd", "Apple", "Experimental", "Fortanix", "Nvidia", "Pc",
   "Rumprun", "Sun", "Uwp", "Wrs"}

Custom(cv) == [tag |-> "Custom", custom |-> cv]

OperatingSystemUnitTags ==
  {"Unknown", "AmdHsa", "Bitrig", "Cloudabi", "Cuda", "Darwin", "Dragonfly",
   "Emscripten", "Freebsd", "Fuchsia", "Haiku", "Hermit", "Illumos", "Ios",
   "L4re", "Linux", "Nebulet", "Netbsd", "None_", "Openbsd", "OpTee", "Psp",
   "Redox", "Solaris", "Uefi", "VxWorks", "Wasi", "Windows"}

MacOSX(ma, mi, pa) ==
  [tag |-> "MacOSX", major |-> ma, minor |-> mi, patch |-> pa]

Environment ==
  {"Unknown", "AmdGiz", "Android", "Androideabi", "Eabi", "Eabihf", "Gnu",
   "Gnuabi64", "Gnueabi", "Gnueabihf", "Gnuspe", "Gnux32", "Macabi", "Musl",
   "Musleabi", "Musleabihf", "Muslabi64", "Msvc", "Kernel", "Uclibc", "Sgx",
   "Softfloat", "Spe", "TrustZone"}

BinaryFormat ==
  {"Unknown", "Elf", "Coff", "Macho", "Wasm"}

\* crate::triple::{Endianness, PointerWidth}, imported on line 3.
Endianness == {"Little", "Big"}

PointerWidth == {"U16", "U32", "U64"}

-----------------------------------------------------------------------------
(* impl PartialEq / Hash for CustomVendor, lines 360-370, and the derived  *)
(* PartialEq of Vendor, line 375                                           *)

\* The equality #[derive(PartialEq)] would give: same variant, same text.
CustomVendorEq_Derived(a, b) == a.repr = b.repr /\ a.str = b.str

CustomVendorEq(a, b) == as_str(a) = as_str(b)

\* str::hash writes the bytes of the text and then 0xff to the hasher; the
\* hasher's state is the sequence of what was written to it.
CustomVendorHash(cv, state) == state \o <<as_str(cv), "0xff">>

VendorEq(a, b) ==
  /\ a.tag = b.tag
  /\ a.tag = "Custom" => CustomVendorEq(a.custom, b.custom)

-----------------------------------------------------------------------------
(* impl ArmArchitecture, lines 119-256 *)

\* ArmArchitecture::is_thumb with Thumbeb among the standard-encoded variants.
ArmArchitectureIsThumb_ThumbebStandard(a) ==
  CASE a \in {"Arm", "Armeb", "Armv4", "Armv4t", "Armv5t", "Armv5te",
              "Armv5tej", "Armv6", "Armv6j", "Armv6k", "Armv6z", "Armv6kz",
              "Armv6t2", "Armv6m", "Armv7", "Armv7a", "Armv7ve", "Armv7m",
              "Armv7r", "Armv7s", "Armv8", "Armv8a", "Armv8_1a", "Armv8_2a",
              "Armv8_3a", "Armv8_4a", "Armv8_5a", "Armv8mBase", "Armv8mMain",
              "Armv8r", "Armebv7r", "Thumbeb"} -> FALSE
    [] a \in {"Thumbv6m", "Thumbv7a", "Thumbv7em", "Thumbv7m",
              "Thumbv7neon", "Thumbv8mBase", "Thumbv8mMain"} -> TRUE

ArmArchitectureIsThumb(a) ==
  CASE a \in {"Arm", "Armeb", "Armv4", "Armv4t", "Armv5t", "Armv5te",
              "Armv5tej", "Armv6", "Armv6j", "Armv6k", "Armv6z", "Armv6kz",
              "Armv6t2", "Armv6m", "Armv7", "Armv7a", "Armv7ve", "Armv7m",
              "Armv7r", "Armv7s", "Armv8", "Armv8a", "Armv8_1a", "Armv8_2a",
              "Armv8_3a", "Armv8_4a", "Armv8_5a", "Armv8mBase", "Armv8mMain",
              "Armv8r", "Armebv7r"} -> FALSE
    [] a \in {"Thumbeb", "Thumbv6m", "Thumbv7a", "Thumbv7em", "Thumbv7m",
              "Thumbv7neon", "Thumbv8mBase", "Thumbv8mMain"} -> TRUE

ArmArchitecturePointerWidth(a) ==
  CASE a \in {"Arm", "Armeb", "Armv4", "Armv4t", "Armv5t", "Armv5te",
              "Armv5tej", "Armv6", "Armv6j", "Armv6k", "Armv6z", "Armv6kz",
              "Armv6t2", "Armv6m", "Armv7", "Armv7a", "Armv7ve", "Armv7m",
              "Armv7r", "Armv7s", "Armv8", "Armv8a", "Armv8_1a", "Armv8_2a",
              "Armv8_3a", "Armv8_4a", "Armv8_5a", "Armv8mBase", "Armv8mMain",
              "Armv8r", "Armebv7r", "Thumbeb", "Thumbv6m", "Thumbv7a",
              "Thumbv7em", "Thumbv7m", "Thumbv7neon", "Thumbv8mBase",
              "Thumbv8mMain"} -> "U32"

\* ArmArchitecture::endianness with Thumbeb among the little-endian variants.
ArmArchitectureEndianness_ThumbebLittle(a) ==
  CASE a \in {"Arm", "Armv4", "Armv4t", "Armv5t", "Armv5te", "Armv5tej",
              "Armv6", "Armv6j", "Armv6k", "Armv6z", "Armv6kz", "Armv6t2",
              "Armv6m", "Armv7", "Armv7a", "Armv7ve", "Armv7m", "Armv7r",
              "Armv7s", "Armv8", "Armv8a", "Armv8_1a", "Armv8_2a", "Armv8_3a",
              "Armv8_4a", "Armv8_5a", "Armv8mBase", "Armv8mMain", "Armv8r",
              "Thumbv6m", "Thumbv7a", "Thumbv7em", "Thumbv7m", "Thumbv7neon",
              "Thumbv8mBase", "Thumbv8mMain", "Thumbeb"} -> "Little"
    [] a \in {"Armeb", "Armebv7r"} -> "Big"

ArmArchitectureEndianness(a) ==
  CASE a \in {"Arm", "Armv4", "Armv4t", "Armv5t", "Armv5te", "Armv5tej",
              "Armv6", "Armv6j", "Armv6k", "Armv6z", "Armv6kz", "Armv6t2",
              "Armv6m", "Armv7", "Armv7a", "Armv7ve", "Armv7m", "Armv7r",
              "Armv7s", "Armv8", "Armv8a", "Armv8_1a", "Armv8_2a", "Armv8_3a",
              "Armv8_4a", "Armv8_5a", "Armv8mBase", "Armv8mMain", "Armv8r",
              "Thumbv6m", "Thumbv7a", "Thumbv7em", "Thumbv7m", "Thumbv7neon",
              "Thumbv8mBase", "Thumbv8mMain"} -> "Little"
    [] a \in {"Armeb", "Armebv7r", "Thumbeb"} -> "Big"

-----------------------------------------------------------------------------
(* impl Aarch64Architecture, lines 258-284 *)

Aarch64ArchitectureIsThumb(a) ==
  CASE a \in {"Aarch64", "Aarch64be"} -> FALSE

\* Aarch64Architecture::pointer_width with 32 bits for Aarch64be.
Aarch64ArchitecturePointerWidth_Be32(a) ==
  CASE a = "Aarch64" -> "U64"
    [] a = "Aarch64be" -> "U32"

Aarch64ArchitecturePointerWidth(a) ==
  CASE a \in {"Aarch64", "Aarch64be"} -> "U64"

Aarch64ArchitectureEndianness(a) ==
  CASE a = "Aarch64" -> "Little"
    [] a = "Aarch64be" -> "Big"

-----------------------------------------------------------------------------
(* impl Architecture, lines 483-547 *)

\* endianness without the arm of line 511: Mips64(Mipsisa64r6) is left to
\* fail as Unknown does.
ArchitectureEndianness_NestedMissing(a) ==
  CASE a = Unit("Unknown") \/ a = Sub("Mips64", "Mipsisa64r6") -> Err
    [] a.tag = "Arm" -> Ok(ArmArchitectureEndianness(a.sub))
    [] a.tag = "Aarch64" -> Ok(Aarch64ArchitectureEndianness(a.sub))
    [] \/ a.tag \in {"AmdGcn", "Asmjs", "Hexagon", "X86_32"}
       \/ a = Sub("Mips64", "Mips64el")
       \/ a = Sub("Mips32", "Mipsel")
       \/ a = Sub("Mips32", "Mipsisa32r6el")
       \/ a = Sub("Mips64", "Mipsisa64r6el")
       \/ a.tag \in {"Msp430", "Nvptx64", "Powerpc64le", "Riscv32",
                     "Riscv64", "Wasm32", "Wasm64", "X86_64"} -> Ok("Little")
    [] \/ a = Sub("Mips32", "Mips")
       \/ a = Sub("Mips64", "Mips64")
       \/ a = Sub("Mips32", "Mipsisa32r6")
       \/ a.tag \in {"Powerpc", "Powerpc64", "S390x", "Sparc", "Sparc64",
                     "Sparcv9"} -> Ok("Big")

ArchitectureEndianness(a) ==
  CASE a = Unit("Unknown") -> Err
    [] a.tag = "Arm" -> Ok(ArmArchitectureEndianness(a.sub))
    [] a.tag = "Aarch64" -> Ok(Aarch64ArchitectureEndianness(a.sub))
    [] \/ a.tag \in {"AmdGcn", "Asmjs", "Hexagon", "X86_32"}
       \/ a = Sub("Mips64", "Mips64el")
       \/ a = Sub("Mips32", "Mipsel")
       \/ a = Sub("Mips32", "Mipsisa32r6el")
       \/ a = Sub("Mips64", "Mipsisa64r6el")
       \/ a.tag \in {"Msp430", "Nvptx64", "Powerpc64le", "Riscv32",
                     "Riscv64", "Wasm32", "Wasm64", "X86_64"} -> Ok("Little")
    [] \/ a = Sub("Mips32", "Mips")
       \/ a = Sub("Mips64", "Mips64")
       \/ a = Sub("Mips32", "Mipsisa32r6")
       \/ a = Sub("Mips64", "Mipsisa64r6")
       \/ a.tag \in {"Powerpc", "Powerpc64", "S390x", "Sparc", "Sparc64",
                     "Sparcv9"} -> Ok("Big")

\* pointer_width with Unknown in the 32-bit arm instead of the failing one.
ArchitecturePointerWidth_UnknownU32(a) ==
  CASE a = Unit("Msp430") -> Ok("U16")
    [] a.tag = "Arm" -> Ok(ArmArchitecturePointerWidth(a.sub))
    [] a.tag = "Aarch64" -> Ok(Aarch64ArchitecturePointerWidth(a.sub))
    [] a.tag \in {"Unknown", "Asmjs", "Hexagon", "X86_32", "Riscv32", "Sparc",
                  "Wasm32", "Mips32", "Powerpc"} -> Ok("U32")
    [] a.tag \in {"AmdGcn", "Powerpc64le", "Riscv64", "X86_64", "Mips64",
                  "Nvptx64", "Powerpc64", "S390x", "Sparc64", "Sparcv9",
                  "Wasm64"} -> Ok("U64")

ArchitecturePointerWidth(a) ==
  CASE a = Unit("Unknown") -> Err
    [] a = Unit("Msp430") -> Ok("U16")
    [] a.tag = "Arm" -> Ok(ArmArchitecturePointerWidth(a.sub))
    [] a.tag = "Aarch64" -> Ok(Aarch64ArchitecturePointerWidth(a.sub))
    [] a.tag \in {"Asmjs", "Hexagon", "X86_32", "Riscv32", "Sparc", "Wasm32",
                  "Mips32", "Powerpc"} -> Ok("U32")
    [] a.tag \in {"AmdGcn", "Powerpc64le", "Riscv64", "X86_64", "Mips64",
                  "Nvptx64", "Powerpc64", "S390x", "Sparc64", "Sparcv9",
                  "Wasm64"} -> Ok("U64")

-----------------------------------------------------------------------------
(* default_binary_format, lines 549-571.  A Triple is the record of its    *)
(* five fields (crate::triple::Triple, imported on line 3).                *)

\* default_binary_format without VxWorks on line 562: VxWorks falls to the
\* last arm.
default_binary_format_VxWorksElf(triple) ==
  CASE triple.operating_system = Unit("None_") ->
         ( CASE triple.environment \in {"Eabi", "Eabihf"} -> "Elf"
             [] OTHER -> "Unknown" )
    [] \/ triple.operating_system \in {Unit("Darwin"), Unit("Ios")}
       \/ triple.operating_system.tag = "MacOSX" -> "Macho"
    [] triple.operating_system = Unit("Windows") -> "Coff"
    [] triple.operating_system \in
         {Unit("Nebulet"), Unit("Emscripten"), Unit("Wasi"),
          Unit("Unknown")} ->
         ( CASE triple.architecture \in {Unit("Wasm32"), Unit("Wasm64")} ->
                  "Wasm"
             [] OTHER -> "Unknown" )
    [] OTHER -> "Elf"

\* default_binary_format with a last arm that keeps a Coff binary_format
\* field.
default_binary_format_KeepsCoff(triple) ==
  CASE triple.operating_system = Unit("None_") ->
         ( CASE triple.environment \in {"Eabi", "Eabihf"} -> "Elf"
             [] OTHER -> "Unknown" )
    [] \/ triple.operating_system \in {Unit("Darwin"), Unit("Ios")}
       \/ triple.operating_system.tag = "MacOSX" -> "Macho"
    [] triple.operating_system = Unit("Windows") -> "Coff"
    [] triple.operating_system \in
         {Unit("Nebulet"), Unit("Emscripten"), Unit("VxWorks"), Unit("Wasi"),
          Unit("Unknown")} ->
         ( CASE triple.architecture \in {Unit("Wasm32"), Unit("Wasm64")} ->
                  "Wasm"
             [] OTHER -> "Unknown" )
    [] OTHER -> IF triple.binary_format = "Coff" THEN "Coff" ELSE "Elf"

default_binary_format(triple) ==
  CASE triple.operating_system = Unit("None_") ->
         ( CASE triple.environment \in {"Eabi", "Eabihf"} -> "Elf"
             [] OTHER -> "Unknown" )
    [] \/ triple.operating_system \in {Unit("Darwin"), Unit("Ios")}
       \/ triple.operating_system.tag = "MacOSX" -> "Macho"
    [] triple.operating_system = Unit("Windows") -> "Coff"
    [] triple.operating_system \in
         {Unit("Nebulet"), Unit("Emscripten"), Unit("VxWorks"), Unit("Wasi"),
          Unit("Unknown")} ->
         ( CASE triple.architecture \in {Unit("Wasm32"), Unit("Wasm64")} ->
                  "Wasm"
             [] OTHER -> "Unknown" )
    [] OTHER -> "Elf"

-----------------------------------------------------------------------------
(* impl fmt::Display for the sub-architectures and Architecture,           *)
(* lines 573-716                                                           *)

ArmArchitectureFmt(a) ==
  CASE a = "Arm" -> "arm"
    [] a = "Armeb" -> "armeb"
    [] a = "Armv4" -> "armv4"
    [] a = "Armv4t" -> "armv4t"
    [] a = "Armv5t" -> "armv5t"
    [] a = "Armv5te" -> "armv5te"
    [] a = "Armv5tej" -> "armv5tej"
    [] a = "Armv6" -> "armv6"
    [] a = "Armv6j" -> "armv6j"
    [] a = "Armv6k" -> "armv6k"
    [] a = "Armv6z" -> "armv6z"
    [] a = "Armv6kz" -> "armv6kz"
    [] a = "Armv6t2" -> "armv6t2"
    [] a = "Armv6m" -> "armv6m"
    [] a = "Armv7" -> "armv7"
    [] a = "Armv7a" -> "armv7a"
    [] a = "Armv7ve" -> "armv7ve"
    [] a = "Armv7m" -> "armv7m"
    [] a = "Armv7r" -> "armv7r"
    [] a = "Armv7s" -> "armv7s"
    [] a = "Armv8" -> "armv8"
    [] a = "Armv8a" -> "armv8a"
    [] a = "Armv8_1a" -> "armv8.1a"
    [] a = "Armv8_2a" -> "armv8.2a"
    [] a = "Armv8_3a" -> "armv8.3a"
    [] a = "Armv8_4a" -> "armv8.4a"
    [] a = "Armv8_5a" -> "armv8.5a"
    [] a = "Armv8mBase" -> "armv8m.base"
    [] a = "Armv8mMain" -> "armv8m.main"
    [] a = "Armv8r" -> "armv8r"
    [] a = "Thumbeb" -> "thumbeb"
    [] a = "Thumbv6m" -> "thumbv6m"
    [] a = "Thumbv7a" -> "thumbv7a"
    [] a = "Thumbv7em" -> "thumbv7em"
    [] a = "Thumbv7m" -> "thumbv7m"
    [] a = "Thumbv7neon" -> "thumbv7neon"
    [] a = "Thumbv8mBase" -> "thumbv8m.base"
    [] a = "Thumbv8mMain" -> "thumbv8m.main"
    [] a = "Armebv7r" -> "armebv7r"

\* The Display of Aarch64Architecture with the alias as the name of Aarch64.
Aarch64ArchitectureFmt_Alias(a) ==
  CASE a = "Aarch64" -> "arm64"
    [] a = "Aarch64be" -> "aarch64be"

Aarch64ArchitectureFmt(a) ==
  CASE a = "Aarch64" -> "aarch64"
    [] a = "Aarch64be" -> "aarch64be"

Riscv32ArchitectureFmt(a) ==
  CASE a = "Riscv32" -> "riscv32"
    [] a = "Riscv32i" -> "riscv32i"
    [] a = "Riscv32imac" -> "riscv32imac"
    [] a = "Riscv32imc" -> "riscv32imc"

Riscv64ArchitectureFmt(a) ==
  CASE a = "Riscv64" -> "riscv64"
    [] a = "Riscv64gc" -> "riscv64gc"
    [] a = "Riscv64imac" -> "riscv64imac"

X86_32ArchitectureFmt(a) ==
  CASE a = "I386" -> "i386"
    [] a = "I586" -> "i586"
    [] a = "I686" -> "i686"

Mips32ArchitectureFmt(a) ==
  CASE a = "Mips" -> "mips"
    [] a = "Mipsel" -> "mipsel"
    [] a = "Mipsisa32r6" -> "mipsisa32r6"
    [] a = "Mipsisa32r6el" -> "mipsisa32r6el"

Mips64ArchitectureFmt(a) ==
  CASE a = "Mips64" -> "mips64"
    [] a = "Mips64el" -> "mips64el"
    [] a = "Mipsisa64r6" -> "mipsisa64r6"
    [] a = "Mipsisa64r6el" -> "mipsisa64r6el"

\* The Display of Architecture with one name for Sparc64 and Sparcv9.
ArchitectureFmt_SharedName(a) ==
  CASE a.tag = "Arm" -> ArmArchitectureFmt(a.sub)
    [] a.tag = "Aarch64" -> Aarch64ArchitectureFmt(a.sub)
    [] a.tag = "Unknown" -> "unknown"
    [] a.tag = "AmdGcn" -> "amdgcn"
    [] a.tag = "Asmjs" -> "asmjs"
    [] a.tag = "Hexagon" -> "hexagon"
    [] a.tag = "X86_32" -> X86_32ArchitectureFmt(a.sub)
    [] a.tag = "Mips32" -> Mips32ArchitectureFmt(a.sub)
    [] a.tag = "Mips64" -> Mips64ArchitectureFmt(a.sub)
    [] a.tag = "Msp430" -> "msp430"
    [] a.tag = "Nvptx64" -> "nvptx64"
    [] a.tag = "Powerpc" -> "powerpc"
    [] a.tag = "Powerpc64" -> "powerpc64"
    [] a.tag = "Powerpc64le" -> "powerpc64le"
    [] a.tag = "Riscv32" -> Riscv32ArchitectureFmt(a.sub)
    [] a.tag = "Riscv64" -> Riscv64ArchitectureFmt(a.sub)
    [] a.tag = "S390x" -> "s390x"
    [] a.tag = "Sparc" -> "sparc"
    [] a.tag = "Sparc64" -> "sparc64"
    [] a.tag = "Sparcv9" -> "sparc64"
    [] a.tag = "Wasm32" -> "wasm32"
    [] a.tag = "Wasm64" -> "wasm64"
    [] a.tag = "X86_64" -> "x86_64"

ArchitectureFmt(a) ==
  CASE a.tag = "Arm" -> ArmArchitectureFmt(a.sub)
    [] a.tag = "Aarch64" -> Aarch64ArchitectureFmt(a.sub)
    [] a.tag = "Unknown" -> "unknown"
    [] a.tag = "AmdGcn" -> "amdgcn"
    [] a.tag = "Asmjs" -> "asmjs"
    [] a.tag = "Hexagon" -> "hexagon"
    [] a.tag = "X86_32" -> X86_32ArchitectureFmt(a.sub)
    [] a.tag = "Mips32" -> Mips32ArchitectureFmt(a.sub)
    [] a.tag = "Mips64" -> Mips64ArchitectureFmt(a.sub)
    [] a.tag = "Msp430" -> "msp430"
    [] a.tag = "Nvptx64" -> "nvptx64"
    [] a.tag = "Powerpc" -> "powerpc"
    [] a.tag = "Powerpc64" -> "powerpc64"
    [] a.tag = "Powerpc64le" -> "powerpc64le"
    [] a.tag = "Riscv32" -> Riscv32ArchitectureFmt(a.sub)
    [] a.tag = "Riscv64" -> Riscv64ArchitectureFmt(a.sub)
    [] a.tag = "S390x" -> "s390x"
    [] a.tag = "Sparc" -> "sparc"
    [] a.tag = "Sparc64" -> "sparc64"
    [] a.tag = "Sparcv9" -> "sparcv9"
    [] a.tag = "Wasm32" -> "wasm32"
    [] a.tag = "Wasm64" -> "wasm64"
    [] a.tag = "X86_64" -> "x86_64"

-----------------------------------------------------------------------------
(* impl FromStr for the sub-architectures and Architecture, lines 718-890  *)

ArmArchitectureFromStr(s) ==
  CASE s = "arm" -> Ok("Arm")
    [] s = "armeb" -> Ok("Armeb")
    [] s = "armv4" -> Ok("Armv4")
    [] s = "armv4t" -> Ok("Armv4t")
    [] s = "armv5t" -> Ok("Armv5t")
    [] s = "armv5te" -> Ok("Armv5te")
    [] s = "armv5tej" -> Ok("Armv5tej")
    [] s = "armv6" -> Ok("Armv6")
    [] s = "armv6j" -> Ok("Armv6j")
    [] s = "armv6k" -> Ok("Armv6k")
    [] s = "armv6z" -> Ok("Armv6z")
    [] s = "armv6kz" -> Ok("Armv6kz")
    [] s = "armv6t2" -> Ok("Armv6t2")
    [] s = "armv6m" -> Ok("Armv6m")
    [] s = "armv7" -> Ok("Armv7")
    [] s = "armv7a" -> Ok("Armv7a")
    [] s = "armv7ve" -> Ok("Armv7ve")
    [] s = "armv7m" -> Ok("Armv7m")
    [] s = "armv7r" -> Ok("Armv7r")
    [] s = "armv7s" -> Ok("Armv7s")
    [] s = "armv8" -> Ok("Armv8")
    [] s = "armv8a" -> Ok("Armv8a")
    [] s = "armv8.1a" -> Ok("Armv8_1a")
    [] s = "armv8.2a" -> Ok("Armv8_2a")
    [] s = "armv8.3a" -> Ok("Armv8_3a")
    [] s = "armv8.4a" -> Ok("Armv8_4a")
    [] s = "armv8.5a" -> Ok("Armv8_5a")
    [] s = "armv8m.base" -> Ok("Armv8mBase")
    [] s = "armv8m.main" -> Ok("Armv8mMain")
    [] s = "armv8r" -> Ok("Armv8r")
    [] s = "thumbeb" -> Ok("Thumbeb")
    [] s = "thumbv6m" -> Ok("Thumbv6m")
    [] s = "thumbv7a" -> Ok("Thumbv7a")
    [] s = "thumbv7em" -> Ok("Thumbv7em")
    [] s = "thumbv7m" -> Ok("Thumbv7m")
    [] s = "thumbv7neon" -> Ok("Thumbv7neon")
    [] s = "thumbv8m.base" -> Ok("Thumbv8mBase")
    [] s = "thumbv8m.main" -> Ok("Thumbv8mMain")
    [] s = "armebv7r" -> Ok("Armebv7r")
    [] OTHER -> Err

\* Aarch64ArchitectureFromStr with the value of "aarch64be" taken from the
\* arm above it.
Aarch64ArchitectureFromStr_CopiedArm(s) ==
  CASE s = "aarch64" -> Ok("Aarch64")
    [] s = "arm64" -> Ok("Aarch64")
    [] s = "aarch64be" -> Ok("Aarch64")
    [] OTHER -> Err

Aarch64ArchitectureFromStr(s) ==
  CASE s = "aarch64" -> Ok("Aarch64")
    [] s = "arm64" -> Ok("Aarch64")
    [] s = "aarch64be" -> Ok("Aarch64be")
    [] OTHER -> Err

Riscv32ArchitectureFromStr(s) ==
  CASE s = "riscv32" -> Ok("Riscv32")
    [] s = "riscv32i" -> Ok("Riscv32i")
    [] s = "riscv32imac" -> Ok("Riscv32imac")
    [] s = "riscv32imc" -> Ok("Riscv32imc")
    [] OTHER -> Err

\* Riscv64Architecture::from_str without the arm of "riscv64gc".
Riscv64ArchitectureFromStr_NoGc(s) ==
  CASE s = "riscv64" -> Ok("Riscv64")
    [] s = "riscv64imac" -> Ok("Riscv64imac")
    [] OTHER -> Err

Riscv64ArchitectureFromStr(s) ==
  CASE s = "riscv64" -> Ok("Riscv64")
    [] s = "riscv64gc" -> Ok("Riscv64gc")
    [] s = "riscv64imac" -> Ok("Riscv64imac")
    [] OTHER -> Err

X86_32ArchitectureFromStr(s) ==
  CASE s = "i386" -> Ok("I386")
    [] s = "i586" -> Ok("I586")
    [] s = "i686" -> Ok("I686")
    [] OTHER -> Err

Mips32ArchitectureFromStr(s) ==
  CASE s = "mips" -> Ok("Mips")
    [] s = "mipsel" -> Ok("Mipsel")
    [] s = "mipsisa32r6" -> Ok("Mipsisa32r6")
    [] s = "mipsisa32r6el" -> Ok("Mipsisa32r6el")
    [] OTHER -> Err

\* Mips64Architecture::from_str with "mips" as one more name of Mips64.
Mips64ArchitectureFromStr_AlsoMips(s) ==
  CASE s = "mips" -> Ok("Mips64")
    [] s = "mips64" -> Ok("Mips64")
    [] s = "mips64el" -> Ok("Mips64el")
    [] s = "mipsisa64r6" -> Ok("Mipsisa64r6")
    [] s = "mipsisa64r6el" -> Ok("Mipsisa64r6el")
    [] OTHER -> Err

Mips64ArchitectureFromStr(s) ==
  CASE s = "mips64" -> Ok("Mips64")
    [] s = "mips64el" -> Ok("Mips64el")
    [] s = "mipsisa64r6" -> Ok("Mipsisa64r6")
    [] s = "mipsisa64r6el" -> Ok("Mipsisa64r6el")
    [] OTHER -> Err

\* The arms of the match with a name, lines 853-868.
ArchitectureFlatFromStr(s) ==
  CASE s = "unknown" -> Ok(Unit("Unknown"))
    [] s = "amdgcn" -> Ok(Unit("AmdGcn"))
    [] s = "asmjs" -> Ok(Unit("Asmjs"))
    [] s = "hexagon" -> Ok(Unit("Hexagon"))
    [] s = "msp430" -> Ok(Unit("Msp430"))
    [] s = "nvptx64" -> Ok(Unit("Nvptx64"))
    [] s = "powerpc" -> Ok(Unit("Powerpc"))
    [] s = "powerpc64" -> Ok(Unit("Powerpc64"))
    [] s = "powerpc64le" -> Ok(Unit("Powerpc64le"))
    [] s = "s390x" -> Ok(Unit("S390x"))
    [] s = "sparc" -> Ok(Unit("Sparc"))
    [] s = "sparc64" -> Ok(Unit("Sparc64"))
    [] s = "sparcv9" -> Ok(Unit("Sparcv9"))
    [] s = "wasm32" -> Ok(Unit("Wasm32"))
    [] s = "wasm64" -> Ok(Unit("Wasm64"))
    [] s = "x86_64" -> Ok(Unit("X86_64"))
    [] OTHER -> Err

\* The whole match: the names first, then the sub-architecture parsers in
\* the order of lines 870-882.
ArchitectureFromStr(s) ==
  LET flat == ArchitectureFlatFromStr(s)
      arm == ArmArchitectureFromStr(s)
      aarch64 == Aarch64ArchitectureFromStr(s)
      riscv32 == Riscv32ArchitectureFromStr(s)
      riscv64 == Riscv64ArchitectureFromStr(s)
      x86_32 == X86_32ArchitectureFromStr(s)
      mips32 == Mips32ArchitectureFromStr(s)
      mips64 == Mips64ArchitectureFromStr(s)
  IN  IF flat.ok THEN flat
      ELSE IF arm.ok THEN Ok(Sub("Arm", arm.val))
      ELSE IF aarch64.ok THEN Ok(Sub("Aarch64", aarch64.val))
      ELSE IF riscv32.ok THEN Ok(Sub("Riscv32", riscv32.val))
      ELSE IF riscv64.ok THEN Ok(Sub("Riscv64", riscv64.val))
      ELSE IF x86_32.ok THEN Ok(Sub("X86_32", x86_32.val))
      ELSE IF mips32.ok THEN Ok(Sub("Mips32", mips32.val))
      ELSE IF mips64.ok THEN Ok(Sub("Mips64", mips64.val))
      ELSE Err

-----------------------------------------------------------------------------
(* Strings and numbers of the standard library, as the codecs use them     *)

\* s.chars(): the chars of s in order.
chars(s) == [i \in 1..Len(s) |-> SubSeq(s, i, i)]

\* s.chars().next(): the first char of s, if it has one.
chars_next(s) == IF Len(s) = 0 THEN None ELSE Some(chars(s)[1])

\* s.starts_with(p)
starts_with(s, p) == Len(s) >= Len(p) /\ SubSeq(s, 1, Len(p)) = p

\* &s[n..]
SliceFrom(s, n) == SubSeq(s, n + 1, Len(s))

AsciiLowercase ==
  {"a", "b", "c", "d", "e", "f", "g", "h", "i", "j", "k", "l", "m", "n", "o",
   "p", "q", "r", "s", "t", "u", "v", "w", "x", "y", "z"}

AsciiDigits == "0123456789"

is_ascii_lowercase(c) == c \in AsciiLowercase

is_ascii_digit(c) == \E d \in 1..Len(AsciiDigits) : c = SubSeq(AsciiDigits, d, d)

\* c.to_digit(10) of an ASCII digit.
DigitValue(c) == (CHOOSE d \in 1..Len(AsciiDigits) : c = SubSeq(AsciiDigits, d, d)) - 1

\* u16::MAX
U16Max == 65535

\* s.split(sep): the pieces of s between the occurrences of the char sep;
\* a string without sep, the empty string too, is one piece.
RECURSIVE split(_, _)
split(s, sep) ==
  IF \A i \in 1..Len(s) : SubSeq(s, i, i) # sep
  THEN <<s>>
  ELSE LET i == CHOOSE k \in 1..Len(s) :
                  /\ SubSeq(s, k, k) = sep
                  /\ \A j \in 1..(k - 1) : SubSeq(s, j, j) # sep
       IN  <<SubSeq(s, 1, i - 1)>> \o split(SliceFrom(s, i), sep)

\* The digit loop of u16's from_str_radix: result = result * 10 + digit with
\* checked_mul and checked_add, an error on a char that is no digit.
RECURSIVE ParseDigits(_, _, _)
ParseDigits(digits, i, result) ==
  IF i > Len(digits) THEN Ok(result)
  ELSE LET c == SubSeq(digits, i, i)
       IN  IF ~is_ascii_digit(c) THEN Err
           ELSE IF result * 10 > U16Max THEN Err
           ELSE IF result * 10 + DigitValue(c) > U16Max THEN Err
           ELSE ParseDigits(digits, i + 1, result * 10 + DigitValue(c))

\* num.parse::<u16>(): the empty string and a lone sign are errors, one
\* leading '+' is skipped, '-' is no digit of an unsigned type.
ParseU16(num) ==
  IF num = "" THEN Err
  ELSE IF num \in {"+", "-"} THEN Err
  ELSE IF SubSeq(num, 1, 1) = "+" THEN ParseDigits(SliceFrom(num, 1), 1, 0)
  ELSE ParseDigits(num, 1, 0)

\* The Display of a u16 ("{}"): its decimal digits, no sign, no leading zero.
RECURSIVE U16Fmt(_)
U16Fmt(n) ==
  IF n < 10 THEN SubSeq(AsciiDigits, n + 1, n + 1)
  ELSE U16Fmt(n \div 10) \o SubSeq(AsciiDigits, (n % 10) + 1, (n % 10) + 1)

-----------------------------------------------------------------------------
(* impl fmt::Display / FromStr for OperatingSystem, lines 971-1081 *)

OperatingSystemFmt(os) ==
  CASE os.tag = "Unknown" -> "unknown"
    [] os.tag = "AmdHsa" -> "amdhsa"
    [] os.tag = "Bitrig" -> "bitrig"
    [] os.tag = "Cloudabi" -> "cloudabi"
    [] os.tag = "Cuda" -> "cuda"
    [] os.tag = "Darwin" -> "darwin"
    [] os.tag = "Dragonfly" -> "dragonfly"
    [] os.tag = "Emscripten" -> "emscripten"
    [] os.tag = "Freebsd" -> "freebsd"
    [] os.tag = "Fuchsia" -> "fuchsia"
    [] os.tag = "Haiku" -> "haiku"
    [] os.tag = "Hermit" -> "hermit"
    [] os.tag = "Illumos" -> "illumos"
    [] os.tag = "Ios" -> "ios"
    [] os.tag = "L4re" -> "l4re"
    [] os.tag = "Linux" -> "linux"
    [] os.tag = "MacOSX" ->
         "macosx" \o U16Fmt(os.major) \o "." \o U16Fmt(os.minor)
                  \o "." \o U16Fmt(os.patch)
    [] os.tag = "Nebulet" -> "nebulet"
    [] os.tag = "Netbsd" -> "netbsd"
    [] os.tag = "None_" -> "none"
    [] os.tag = "Openbsd" -> "openbsd"
    [] os.tag = "OpTee" -> "optee"
    [] os.tag = "Psp" -> "psp"
    [] os.tag = "Redox" -> "redox"
    [] os.tag = "Solaris" -> "solaris"
    [] os.tag = "Uefi" -> "uefi"
    [] os.tag = "VxWorks" -> "vxworks"
    [] os.tag = "Wasi" -> "wasi"
    [] os.tag = "Windows" -> "windows"

\* The macosx branch, lines 1020-1046; s is the text after "macosx".
MacOSXFromStr(s) ==
  LET parts == split(s, ".")
      part(k) == IF k <= Len(parts) THEN ParseU16(parts[k]) ELSE Err
  IN  IF ~part(1).ok THEN Err
      ELSE IF ~part(2).ok THEN Err
      ELSE IF ~part(3).ok THEN Err
      ELSE IF Len(parts) > 3 THEN Err
      ELSE Ok(MacOSX(part(1).val, part(2).val, part(3).val))

OperatingSystemFromStr(s) ==
  IF starts_with(s, "macosx") THEN MacOSXFromStr(SliceFrom(s, Len("macosx")))
  ELSE
    CASE s = "unknown" -> Ok(Unit("Unknown"))
      [] s = "amdhsa" -> Ok(Unit("AmdHsa"))
      [] s = "bitrig" -> Ok(Unit("Bitrig"))
      [] s = "cloudabi" -> Ok(Unit("Cloudabi"))
      [] s = "cuda" -> Ok(Unit("Cuda"))
      [] s = "darwin" -> Ok(Unit("Darwin"))
      [] s = "dragonfly" -> Ok(Unit("Dragonfly"))
      [] s = "emscripten" -> Ok(Unit("Emscripten"))
      [] s = "freebsd" -> Ok(Unit("Freebsd"))
      [] s = "fuchsia" -> Ok(Unit("Fuchsia"))
      [] s = "haiku" -> Ok(Unit("Haiku"))
      [] s = "hermit" -> Ok(Unit("Hermit"))
      [] s = "illumos" -> Ok(Unit("Illumos"))
      [] s = "ios" -> Ok(Unit("Ios"))
      [] s = "l4re" -> Ok(Unit("L4re"))
      [] s = "linux" -> Ok(Unit("Linux"))
      [] s = "nebulet" -> Ok(Unit("Nebulet"))
      [] s = "netbsd" -> Ok(Unit("Netbsd"))
      [] s = "none" -> Ok(Unit("None_"))
      [] s = "openbsd" -> Ok(Unit("Openbsd"))
      [] s = "optee" -> Ok(Unit("OpTee"))
      [] s = "psp" -> Ok(Unit("Psp"))
      [] s = "redox" -> Ok(Unit("Redox"))
      [] s = "solaris" -> Ok(Unit("Solaris"))
      [] s = "uefi" -> Ok(Unit("Uefi"))
      [] s = "vxworks" -> Ok(Unit("VxWorks"))
      [] s = "wasi" -> Ok(Unit("Wasi"))
      [] s = "windows" -> Ok(Unit("Windows"))
      [] OTHER -> Err

-----------------------------------------------------------------------------
(* impl fmt::Display / FromStr for Environment and BinaryFormat,           *)
(* lines 1083-1175                                                         *)

EnvironmentFmt(a) ==
  CASE a = "Unknown" -> "unknown"
    [] a = "AmdGiz" -> "amdgiz"
    [] a = "Android" -> "android"
    [] a = "Androideabi" -> "androideabi"
    [] a = "Eabi" -> "eabi"
    [] a = "Eabihf" -> "eabihf"
    [] a = "Gnu" -> "gnu"
    [] a = "Gnuabi64" -> "gnuabi64"
    [] a = "Gnueabi" -> "gnueabi"
    [] a = "Gnueabihf" -> "gnueabihf"
    [] a = "Gnuspe" -> "gnuspe"
    [] a = "Gnux32" -> "gnux32"
    [] a = "Macabi" -> "macabi"
    [] a = "Musl" -> "musl"
    [] a = "Musleabi" -> "musleabi"
    [] a = "Musleabihf" -> "musleabihf"
    [] a = "Muslabi64" -> "muslabi64"
    [] a = "Msvc" -> "msvc"
    [] a = "Kernel" -> "kernel"
    [] a = "Uclibc" -> "uclibc"
    [] a = "Sgx" -> "sgx"
    [] a = "Softfloat" -> "softfloat"
    [] a = "Spe" -> "spe"
    [] a = "TrustZone" -> "trustzone"

\* Environment::from_str with one more arm: "wasm", a name of BinaryFormat.
EnvironmentFromStr_AlsoWasm(s) ==
  CASE s = "unknown" -> Ok("Unknown")
    [] s = "amdgiz" -> Ok("AmdGiz")
    [] s = "android" -> Ok("Android")
    [] s = "androideabi" -> Ok("Androideabi")
    [] s = "eabi" -> Ok("Eabi")
    [] s = "eabihf" -> Ok("Eabihf")
    [] s = "gnu" -> Ok("Gnu")
    [] s = "gnuabi64" -> Ok("Gnuabi64")
    [] s = "gnueabi" -> Ok("Gnueabi")
    [] s = "gnueabihf" -> Ok("Gnueabihf")
    [] s = "gnuspe" -> Ok("Gnuspe")
    [] s = "gnux32" -> Ok("Gnux32")
    [] s = "macabi" -> Ok("Macabi")
    [] s = "musl" -> Ok("Musl")
    [] s = "musleabi" -> Ok("Musleabi")
    [] s = "musleabihf" -> Ok("Musleabihf")
    [] s = "muslabi64" -> Ok("Muslabi64")
    [] s = "msvc" -> Ok("Msvc")
    [] s = "kernel" -> Ok("Kernel")
    [] s = "uclibc" -> Ok("Uclibc")
    [] s = "sgx" -> Ok("Sgx")
    [] s = "softfloat" -> Ok("Softfloat")
    [] s = "spe" -> Ok("Spe")
    [] s = "trustzone" -> Ok("TrustZone")
    [] s = "wasm" -> Ok("Unknown")
    [] OTHER -> Err

EnvironmentFromStr(s) ==
  CASE s = "unknown" -> Ok("Unknown")
    [] s = "amdgiz" -> Ok("AmdGiz")
    [] s = "android" -> Ok("Android")
    [] s = "androideabi" -> Ok("Androideabi")
    [] s = "eabi" -> Ok("Eabi")
    [] s = "eabihf" -> Ok("Eabihf")
    [] s = "gnu" -> Ok("Gnu")
    [] s = "gnuabi64" -> Ok("Gnuabi64")
    [] s = "gnueabi" -> Ok("Gnueabi")
    [] s = "gnueabihf" -> Ok("Gnueabihf")
    [] s = "gnuspe" -> Ok("Gnuspe")
    [] s = "gnux32" -> Ok("Gnux32")
    [] s = "macabi" -> Ok("Macabi")
    [] s = "musl" -> Ok("Musl")
    [] s = "musleabi" -> Ok("Musleabi")
    [] s = "musleabihf" -> Ok("Musleabihf")
    [] s = "muslabi64" -> Ok("Muslabi64")
    [] s = "msvc" -> Ok("Msvc")
    [] s = "kernel" -> Ok("Kernel")
    [] s = "uclibc" -> Ok("Uclibc")
    [] s = "sgx" -> Ok("Sgx")
    [] s = "softfloat" -> Ok("Softfloat")
    [] s = "spe" -> Ok("Spe")
    [] s = "trustzone" -> Ok("TrustZone")
    [] OTHER -> Err

BinaryFormatFmt(a) ==
  CASE a = "Unknown" -> "unknown"
    [] a = "Elf" -> "elf"
    [] a = "Coff" -> "coff"
    [] a = "Macho" -> "macho"
    [] a = "Wasm" -> "wasm"

\* BinaryFormat::from_str on s.trim_end() instead of s.
BinaryFormatFromStr_Trimmed(s) ==
  LET t == IF s # "" /\ SubSeq(s, Len(s), Len(s)) = " "
             THEN SubSeq(s, 1, Len(s) - 1) ELSE s
  IN  CASE t = "unknown" -> Ok("Unknown")
        [] t = "elf" -> Ok("Elf")
        [] t = "coff" -> Ok("Coff")
        [] t = "macho" -> Ok("Macho")
        [] t = "wasm" -> Ok("Wasm")
        [] OTHER -> Err

BinaryFormatFromStr(s) ==
  CASE s = "unknown" -> Ok("Unknown")
    [] s = "elf" -> Ok("Elf")
    [] s = "coff" -> Ok("Coff")
    [] s = "macho" -> Ok("Macho")
    [] s = "wasm" -> Ok("Wasm")
    [] OTHER -> Err

-----------------------------------------------------------------------------
(* impl fmt::Display / FromStr for Vendor, lines 892-969 *)

VendorFmt(v) ==
  CASE v.tag = "Unknown" -> "unknown"
    [] v.tag = "Amd" -> "amd"
    [] v.tag = "Apple" -> "apple"
    [] v.tag = "Experimental" -> "experimental"
    [] v.tag = "Fortanix" -> "fortanix"
    [] v.tag = "Nvidia" -> "nvidia"
    [] v.tag = "Pc" -> "pc"
    [] v.tag = "Rumprun" -> "rumprun"
    [] v.tag = "Sun" -> "sun"
    [] v.tag = "Uwp" -> "uwp"
    [] v.tag = "Wrs" -> "wrs"
    [] v.tag = "Custom" -> as_str(v.custom)

\* has_restricted without its last alternative: '.' is a restricted char.
has_restricted_DotRestricted(custom) ==
  \E i \in 1..Len(custom) :
    LET c == SubSeq(custom, i, i)
    IN  ~(is_ascii_lowercase(c) \/ is_ascii_digit(c) \/ c = "_")

\* lines 957-959: some char is none of a-z, 0-9, '_' and '.'.
has_restricted(custom) ==
  \E i \in 1..Len(custom) :
    LET c == chars(custom)[i]
    IN  ~(is_ascii_lowercase(c) \/ is_ascii_digit(c) \/ c = "_" \/ c = ".")

\* lines 943-946: the token is a name of another component.
IsRecognizedName(custom) ==
  \/ ArchitectureFromStr(custom).ok
  \/ OperatingSystemFromStr(custom).ok
  \/ EnvironmentFromStr(custom).ok
  \/ BinaryFormatFromStr(custom).ok

\* The custom arm without the check of the first character (lines 952-954).
CustomVendorFromStr_AnyFirstChar(custom) ==
  IF custom = "" THEN Err
  ELSE IF IsRecognizedName(custom) THEN Err
  ELSE IF has_restricted(custom) THEN Err
  ELSE Ok(Custom(CustomVendorOf("Owned", custom)))

\* The custom arm without the check for the empty string (lines 937-940).
CustomVendorFromStr_NoEmptyCheck(custom) ==
  IF IsRecognizedName(custom) THEN Err
  ELSE LET first == chars_next(custom)
       IN  IF ~first.some THEN Panicked
           ELSE IF ~is_ascii_lowercase(first.val) THEN Err
           ELSE IF has_restricted(custom) THEN Err
           ELSE Ok(Custom(CustomVendorOf("Owned", custom)))

\* The custom arm, lines 928-966. The unwrap of line 952 panics on None.
CustomVendorFromStr(custom) ==
  IF custom = "" THEN Err
  ELSE IF IsRecognizedName(custom) THEN Err
  ELSE LET first == chars_next(custom)
       IN  IF ~first.some THEN Panicked
           ELSE IF ~is_ascii_lowercase(first.val) THEN Err
           ELSE IF has_restricted(custom) THEN Err
           ELSE Ok(Custom(CustomVendorOf("Owned", custom)))

VendorFromStr(s) ==
  CASE s = "unknown" -> Ok(Unit("Unknown"))
    [] s = "amd" -> Ok(Unit("Amd"))
    [] s = "apple" -> Ok(Unit("Apple"))
    [] s = "experimental" -> Ok(Unit("Experimental"))
    [] s = "fortanix" -> Ok(Unit("Fortanix"))
    [] s = "nvidia" -> Ok(Unit("Nvidia"))
    [] s = "pc" -> Ok(Unit("Pc"))
    [] s = "rumprun" -> Ok(Unit("Rumprun"))
    [] s = "sun" -> Ok(Unit("Sun"))
    [] s = "uwp" -> Ok(Unit("Uwp"))
    [] s = "wrs" -> Ok(Unit("Wrs"))
    [] OTHER -> CustomVendorFromStr(s)

-----------------------------------------------------------------------------
(* The inputs of the calls *)

\* The longest string over Alphabet that is tried as a token.
MaxLen == 3

\* The most dot-separated parts tried after "macosx".
MaxParts == 4

\* Chars of every class the custom vendor validation tells apart: lowercase,
\* digit, '_', '.', uppercase, space, '-', and code points outside ASCII.
Alphabet == {"p", "c", "0", "_", ".", "P", " ", "-", "é"}

RECURSIVE StringsUpTo(_)
StringsUpTo(n) ==
  IF n = 0 THEN {""}
  ELSE LET shorter == StringsUpTo(n - 1)
       IN  shorter \cup {s \o c : s \in shorter, c \in Alphabet}

\* Every string that some FromStr table names.
RecognizedNames ==
  {"arm", "armeb", "armv4", "armv4t", "armv5t", "armv5te", "armv5tej",
   "armv6", "armv6j", "armv6k", "armv6z", "armv6kz", "armv6t2", "armv6m",
   "armv7", "armv7a", "armv7ve", "armv7m", "armv7r", "armv7s", "armv8",
   "armv8a", "armv8.1a", "armv8.2a", "armv8.3a", "armv8.4a", "armv8.5a",
   "armv8m.base", "armv8m.main", "armv8r", "thumbeb", "thumbv6m", "thumbv7a",
   "thumbv7em", "thumbv7m", "thumbv7neon", "thumbv8m.base", "thumbv8m.main",
   "armebv7r", "aarch64", "arm64", "aarch64be", "riscv32", "riscv32i",
   "riscv32imac", "riscv32imc", "riscv64", "riscv64gc", "riscv64imac",
   "i386", "i586", "i686", "mips", "mipsel", "mipsisa32r6", "mipsisa32r6el",
   "mips64", "mips64el", "mipsisa64r6", "mipsisa64r6el", "unknown", "amdgcn",
   "asmjs", "hexagon", "msp430", "nvptx64", "powerpc", "powerpc64",
   "powerpc64le", "s390x", "sparc", "sparc64", "sparcv9", "wasm32", "wasm64",
   "x86_64", "amd", "apple", "experimental", "fortanix", "nvidia", "pc",
   "rumprun", "sun", "uwp", "wrs", "amdhsa", "bitrig", "cloudabi", "cuda",
   "darwin", "dragonfly", "emscripten", "freebsd", "fuchsia", "haiku",
   "hermit", "illumos", "ios", "l4re", "linux", "nebulet", "netbsd", "none",
   "openbsd", "optee", "psp", "redox", "solaris", "uefi", "vxworks", "wasi",
   "windows", "amdgiz", "android", "androideabi", "eabi", "eabihf", "gnu",
   "gnuabi64", "gnueabi", "gnueabihf", "gnuspe", "gnux32", "macabi", "musl",
   "musleabi", "musleabihf", "muslabi64", "msvc", "kernel", "uclibc", "sgx",
   "softfloat", "spe", "trustzone", "elf", "coff", "macho", "wasm"}

\* The tokens of tests::custom_vendors, lines 1373-1450, and of the kind.
TestTokens ==
  {"", "42", "__customvendor__", "^", " ", "CustomVendor", "linux", "x86_64",
   "elf", "gnu", "customvendor", "ffi", "foo", "42vendor", "custom vendor",
   "my_vendor.v2", "custom-vendor", "customvendοr", "cústomvéndór",
   "a", "z", "a9", "a_", "a.", "_a", ".a", "9a", "vendor1", "macos",
   "macosx10.7.0", "macosx10.7.0 ", " macosx10.7.0", "Macosx10.7.0",
   "macosx-1.0.0", "macosx10.7.0x", "macosx1a.7.0", "macosx10,7,0",
   "macosx99999.0.0",
   "macosx+.0.0", "macosx10.7.00", "macosx65535.65535.65535",
   "macosx0.0.0", "macosx10.7.0.1", "macosx10.7", "macosx"}

UpperOf(c) ==
  LET lower == "abcdefghijklmnopqrstuvwxyz"
      upper == "ABCDEFGHIJKLMNOPQRSTUVWXYZ"
  IN  IF \E i \in 1..26 : SubSeq(lower, i, i) = c
      THEN LET i == CHOOSE k \in 1..26 : SubSeq(lower, k, k) = c
           IN  SubSeq(upper, i, i)
      ELSE c

\* A recognized name with its case changed, with whitespace around it, cut
\* short or with a char appended.
Perturbed(n) ==
  {UpperOf(SubSeq(n, 1, 1)) \o SliceFrom(n, 1),
   SubSeq(n, 1, Len(n) - 1) \o UpperOf(SubSeq(n, Len(n), Len(n))),
   " " \o n, n \o " ", SubSeq(n, 1, Len(n) - 1), SliceFrom(n, 1),
   n \o "x", n \o "0"}

\* The texts of a part of a macosx version.
VersionParts == {"", "0", "7", "007", "+7", "65535", "65536", "x"}

RECURSIVE DottedParts(_)
DottedParts(n) ==
  IF n = 1 THEN VersionParts
  ELSE {r \o "." \o p : r \in DottedParts(n - 1), p \in VersionParts}

MacOSXStrings ==
  {"macosx" \o r : r \in UNION {DottedParts(n) : n \in 1..MaxParts}}

Strings ==
  StringsUpTo(MaxLen) \cup RecognizedNames \cup TestTokens \cup MacOSXStrings
    \cup UNION {Perturbed(n) : n \in RecognizedNames}

\* The version numbers of the MacOSX values that are constructed.
VersionNumbers == {0, 7, 10, 255, 65535}

OperatingSystem ==
  {Unit(t) : t \in OperatingSystemUnitTags}
    \cup {MacOSX(ma, mi, pa) : ma \in VersionNumbers, mi \in VersionNumbers,
                               pa \in VersionNumbers}

\* A CustomVendor can be constructed with any text.
CustomVendor == {CustomVendorOf(r, t) : r \in CustomVendorReprs, t \in Strings}

Vendor == {Unit(t) : t \in VendorUnitTags} \cup {Custom(cv) : cv \in CustomVendor}

\* The CustomVendor values that are compared with each other.
ComparedTexts == {"", "a", "b", "ab", "foo", "Foo", "apple", "customvendor"}

ComparedCustomVendors ==
  {CustomVendorOf(r, t) : r \in CustomVendorReprs, t \in ComparedTexts}

\* The triples whose binary format is inferred.
TripleOperatingSystems ==
  {Unit(t) : t \in OperatingSystemUnitTags}
    \cup {MacOSX(10, 7, 0), MacOSX(0, 0, 0), MacOSX(65535, 65535, 65535)}

TripleVendors == {Unit("Unknown"), Custom(CustomVendorOf("Static", "foo"))}

TripleBinaryFormats == {"Unknown", "Coff"}

Triple ==
  [architecture : Architecture, vendor : TripleVendors,
   operating_system : TripleOperatingSystems, environment : Environment,
   binary_format : TripleBinaryFormats]

-----------------------------------------------------------------------------
(* The caller *)

\* The values the functions take and return are of different types: args and
\* rets hold them under the name of the function called.
Frame(f, v) == [g \in {f} |-> v]

\* The argument and the returned value of the call in progress.
arg == args[fn]

ret == rets[fn]

Init == fn = "idle" /\ args = Frame("idle", "") /\ rets = Frame("idle", "")

\* The call of function f on a, which returns r.
Call(f, a, r) == fn' = f /\ args' = Frame(f, a) /\ rets' = Frame(f, r)

CallArmArchitectureFromStr ==
  /\ fn = "idle"
  /\ \E s \in Strings : Call("ArmArchitecture::from_str", s, ArmArchitectureFromStr(s))

CallAarch64ArchitectureFromStr ==
  /\ fn = "idle"
  /\ \E s \in Strings :
       Call("Aarch64Architecture::from_str", s, Aarch64ArchitectureFromStr(s))

CallRiscv32ArchitectureFromStr ==
  /\ fn = "idle"
  /\ \E s \in Strings :
       Call("Riscv32Architecture::from_str", s, Riscv32ArchitectureFromStr(s))

CallRiscv64ArchitectureFromStr ==
  /\ fn = "idle"
  /\ \E s \in Strings :
       Call("Riscv64Architecture::from_str", s, Riscv64ArchitectureFromStr(s))

CallX86_32ArchitectureFromStr ==
  /\ fn = "idle"
  /\ \E s \in Strings :
       Call("X86_32Architecture::from_str", s, X86_32ArchitectureFromStr(s))

CallMips32ArchitectureFromStr ==
  /\ fn = "idle"
  /\ \E s \in Strings :
       Call("Mips32Architecture::from_str", s, Mips32ArchitectureFromStr(s))

CallMips64ArchitectureFromStr ==
  /\ fn = "idle"
  /\ \E s \in Strings :
       Call("Mips64Architecture::from_str", s, Mips64ArchitectureFromStr(s))

CallArchitectureFromStr ==
  /\ fn = "idle"
  /\ \E s \in Strings : Call("Architecture::from_str", s, ArchitectureFromStr(s))

CallVendorFromStr ==
  /\ fn = "idle"
  /\ \E s \in Strings : Call("Vendor::from_str", s, VendorFromStr(s))

CallOperatingSystemFromStr ==
  /\ fn = "idle"
  /\ \E s \in Strings : Call("OperatingSystem::from_str", s, OperatingSystemFromStr(s))

CallEnvironmentFromStr ==
  /\ fn = "idle"
  /\ \E s \in Strings : Call("Environment::from_str", s, EnvironmentFromStr(s))

CallBinaryFormatFromStr ==
  /\ fn = "idle"
  /\ \E s \in Strings : Call("BinaryFormat::from_str", s, BinaryFormatFromStr(s))

CallArmArchitectureFmt ==
  /\ fn = "idle"
  /\ \E a \in ArmArchitecture : Call("ArmArchitecture::fmt", a, ArmArchitectureFmt(a))

CallAarch64ArchitectureFmt ==
  /\ fn = "idle"
  /\ \E a \in Aarch64Architecture :
       Call("Aarch64Architecture::fmt", a, Aarch64ArchitectureFmt(a))

CallRiscv32ArchitectureFmt ==
  /\ fn = "idle"
  /\ \E a \in Riscv32Architecture :
       Call("Riscv32Architecture::fmt", a, Riscv32ArchitectureFmt(a))

CallRiscv64ArchitectureFmt ==
  /\ fn = "idle"
  /\ \E a \in Riscv64Architecture :
       Call("Riscv64Architecture::fmt", a, Riscv64ArchitectureFmt(a))

CallX86_32ArchitectureFmt ==
  /\ fn = "idle"
  /\ \E a \in X86_32Architecture :
       Call("X86_32Architecture::fmt", a, X86_32ArchitectureFmt(a))

CallMips32ArchitectureFmt ==
  /\ fn = "idle"
  /\ \E a \in Mips32Architecture :
       Call("Mips32Architecture::fmt", a, Mips32ArchitectureFmt(a))

CallMips64ArchitectureFmt ==
  /\ fn = "idle"
  /\ \E a \in Mips64Architecture :
       Call("Mips64Architecture::fmt", a, Mips64ArchitectureFmt(a))

CallArchitectureFmt ==
  /\ fn = "idle"
  /\ \E a \in Architecture : Call("Architecture::fmt", a, ArchitectureFmt(a))

\* Vendor::Custom(CustomVendor::Owned(..)) or (CustomVendor::Static(..))
\* written by a user of the crate: both enums and their variants are pub.
ConstructCustomVendor ==
  /\ fn = "idle"
  /\ \E cv \in CustomVendor : Call("Vendor::Custom", cv, Custom(cv))

CallVendorFmt ==
  /\ fn = "idle"
  /\ \E v \in Vendor : Call("Vendor::fmt", v, VendorFmt(v))

CallOperatingSystemFmt ==
  /\ fn = "idle"
  /\ \E os \in OperatingSystem : Call("OperatingSystem::fmt", os, OperatingSystemFmt(os))

CallEnvironmentFmt ==
  /\ fn = "idle"
  /\ \E e \in Environment : Call("Environment::fmt", e, EnvironmentFmt(e))

CallBinaryFormatFmt ==
  /\ fn = "idle"
  /\ \E b \in BinaryFormat : Call("BinaryFormat::fmt", b, BinaryFormatFmt(b))

CallCustomVendorEq ==
  /\ fn = "idle"
  /\ \E a \in ComparedCustomVendors, b \in ComparedCustomVendors :
       Call("CustomVendor::eq", <<a, b>>, CustomVendorEq(a, b))

CallCustomVendorHash ==
  /\ fn = "idle"
  /\ \E cv \in ComparedCustomVendors :
       Call("CustomVendor::hash", cv, CustomVendorHash(cv, <<>>))

CallArmArchitectureIsThumb ==
  /\ fn = "idle"
  /\ \E a \in ArmArchitecture :
       Call("ArmArchitecture::is_thumb", a, ArmArchitectureIsThumb(a))

CallArmArchitecturePointerWidth ==
  /\ fn = "idle"
  /\ \E a \in ArmArchitecture :
       Call("ArmArchitecture::pointer_width", a, ArmArchitecturePointerWidth(a))

CallArmArchitectureEndianness ==
  /\ fn = "idle"
  /\ \E a \in ArmArchitecture :
       Call("ArmArchitecture::endianness", a, ArmArchitectureEndianness(a))

CallAarch64ArchitectureIsThumb ==
  /\ fn = "idle"
  /\ \E a \in Aarch64Architecture :
       Call("Aarch64Architecture::is_thumb", a, Aarch64ArchitectureIsThumb(a))

CallAarch64ArchitecturePointerWidth ==
  /\ fn = "idle"
  /\ \E a \in Aarch64Architecture :
       Call("Aarch64Architecture::pointer_width", a,
            Aarch64ArchitecturePointerWidth(a))

CallAarch64ArchitectureEndianness ==
  /\ fn = "idle"
  /\ \E a \in Aarch64Architecture :
       Call("Aarch64Architecture::endianness", a, Aarch64ArchitectureEndianness(a))

CallArchitectureEndianness ==
  /\ fn = "idle"
  /\ \E a \in Architecture :
       Call("Architecture::endianness", a, ArchitectureEndianness(a))

CallArchitecturePointerWidth ==
  /\ fn = "idle"
  /\ \E a \in Architecture :
       Call("Architecture::pointer_width", a, ArchitecturePointerWidth(a))

CallDefaultBinaryFormat ==
  /\ fn = "idle"
  /\ \E triple \in Triple :
       Call("default_binary_format", triple, default_binary_format(triple))

\* The call returns and the caller goes on.
Return ==
  /\ fn # "idle"
  /\ fn' = "idle"
  /\ args' = Frame("idle", "")
  /\ rets' = Frame("idle", "")

Next ==
  \/ CallCustomVendorEq
  \/ CallCustomVendorHash
  \/ CallArmArchitectureIsThumb
  \/ CallArmArchitecturePointerWidth
  \/ CallArmArchitectureEndianness
  \/ CallAarch64ArchitectureIsThumb
  \/ CallAarch64ArchitecturePointerWidth
  \/ CallAarch64ArchitectureEndianness
  \/ CallArchitectureEndianness
  \/ CallArchitecturePointerWidth
  \/ CallArmArchitectureFmt
  \/ CallAarch64ArchitectureFmt
  \/ CallRiscv32ArchitectureFmt
  \/ CallRiscv64ArchitectureFmt
  \/ CallX86_32ArchitectureFmt
  \/ CallMips32ArchitectureFmt
  \/ CallMips64ArchitectureFmt
  \/ CallArchitectureFmt
  \/ CallOperatingSystemFmt
  \/ CallEnvironmentFmt
  \/ CallBinaryFormatFmt
  \/ ConstructCustomVendor
  \/ CallVendorFmt
  \/ CallVendorFromStr
  \/ CallOperatingSystemFromStr
  \/ CallArmArchitectureFromStr
  \/ CallAarch64ArchitectureFromStr
  \/ CallRiscv32ArchitectureFromStr
  \/ CallRiscv64ArchitectureFromStr
  \/ CallX86_32ArchitectureFromStr
  \/ CallMips32ArchitectureFromStr
  \/ CallMips64ArchitectureFromStr
  \/ CallArchitectureFromStr
  \/ CallEnvironmentFromStr
  \/ CallBinaryFormatFromStr
  \/ CallDefaultBinaryFormat
  \/ Return

Spec == Init /\ [][Next]_vars

-----------------------------------------------------------------------------
(* What the properties below say about a call *)

\* The last call was of parser f, on the string arg, and it returned Ok.
Accepted(f) == fn = f /\ ret.ok

\* A call of parser f that accepted a string which Fmt produces for one of
\* Values returned a value that Fmt turns back into that string.
RoundTripsString(f, Values, Fmt(_)) ==
  (Accepted(f) /\ \E v \in Values : Fmt(v) = arg) => Fmt(ret.val) = arg

\* Every text is the Display of a vendor: of Custom with that text.
VendorsFormattedAs(s) ==
  {Unit(t) : t \in VendorUnitTags} \cup {Custom(CustomVendorOf("Static", s))}

\* The chars the custom vendor rules name, written out.
LowercaseLetters == {SubSeq("abcdefghijklmnopqrstuvwxyz", i, i) : i \in 1..26}

DecimalDigits == {"0", "1", "2", "3", "4", "5", "6", "7", "8", "9"}

KnownVendorNames ==
  {"unknown", "amd", "apple", "experimental", "fortanix", "nvidia", "pc",
   "rumprun", "sun", "uwp", "wrs"}

\* s is a name of an architecture, operating system, environment or binary
\* format.
ReservedVocabulary(s) ==
  \/ ArchitectureFromStr(s).ok
  \/ OperatingSystemFromStr(s).ok
  \/ EnvironmentFromStr(s).ok
  \/ BinaryFormatFromStr(s).ok

\* The rules of a custom vendor text: not empty, not reserved, a lowercase
\* letter first, and only lowercase letters, digits, '_' and '.'.
ValidCustomText(s) ==
  /\ s # ""
  /\ ~ReservedVocabulary(s)
  /\ SubSeq(s, 1, 1) \in LowercaseLetters
  /\ \A i \in 1..Len(s) :
       SubSeq(s, i, i) \in LowercaseLetters \cup DecimalDigits \cup {"_", "."}

-----------------------------------------------------------------------------
(* C1 *)

\* C1: round trip on canonical strings.  For each component parser
\* (Architecture, Vendor, OperatingSystem, Environment, BinaryFormat and the
\* seven sub-architecture parsers) and every string s that is a formatter
\* output of the component and that the parser accepts, format(parse(s)) = s.
C1_CanonicalStringRoundTrip ==
  /\ RoundTripsString("ArmArchitecture::from_str", ArmArchitecture,
                      ArmArchitectureFmt)
  /\ RoundTripsString("Aarch64Architecture::from_str", Aarch64Architecture,
                      Aarch64ArchitectureFmt)
  /\ RoundTripsString("Riscv32Architecture::from_str", Riscv32Architecture,
                      Riscv32ArchitectureFmt)
  /\ RoundTripsString("Riscv64Architecture::from_str", Riscv64Architecture,
                      Riscv64ArchitectureFmt)
  /\ RoundTripsString("X86_32Architecture::from_str", X86_32Architecture,
                      X86_32ArchitectureFmt)
  /\ RoundTripsString("Mips32Architecture::from_str", Mips32Architecture,
                      Mips32ArchitectureFmt)
  /\ RoundTripsString("Mips64Architecture::from_str", Mips64Architecture,
                      Mips64ArchitectureFmt)
  /\ RoundTripsString("Architecture::from_str", Architecture, ArchitectureFmt)
  /\ RoundTripsString("Vendor::from_str", VendorsFormattedAs(arg), VendorFmt)
  /\ RoundTripsString("OperatingSystem::from_str", OperatingSystem,
                      OperatingSystemFmt)
  /\ RoundTripsString("Environment::from_str", Environment, EnvironmentFmt)
  /\ RoundTripsString("BinaryFormat::from_str", BinaryFormat, BinaryFormatFmt)

\* The canonical string of a MacOSX value was parsed and formats back.
C1_Witness ==
  /\ Accepted("OperatingSystem::from_str")
  /\ arg = "macosx10.7.0"
  /\ arg = OperatingSystemFmt(MacOSX(10, 7, 0))
  /\ OperatingSystemFmt(ret.val) = arg

-----------------------------------------------------------------------------
(* C2 *)

\* A call of formatter f on a value returned a string that Parse accepts and
\* turns back into a value equal, by Eq, to the one formatted.
ParsesBack(f, Parse(_), Eq(_, _)) ==
  fn = f => LET r == Parse(ret) IN r.ok /\ Eq(r.val, arg)

\* The derived PartialEq of the enums without a CustomVendor.
DerivedEq(a, b) == a = b

\* C2: value round trip.  For every constructed value c of every component
\* type (Architecture, Vendor with Vendor::Custom of an Owned or a Static
\* string, OperatingSystem with MacOSX, Environment, BinaryFormat),
\* parse(format(c)) succeeds and equals c.
C2_ValueRoundTrip ==
  /\ ParsesBack("ArmArchitecture::fmt", ArmArchitectureFromStr, DerivedEq)
  /\ ParsesBack("Aarch64Architecture::fmt", Aarch64ArchitectureFromStr,
                DerivedEq)
  /\ ParsesBack("Riscv32Architecture::fmt", Riscv32ArchitectureFromStr,
                DerivedEq)
  /\ ParsesBack("Riscv64Architecture::fmt", Riscv64ArchitectureFromStr,
                DerivedEq)
  /\ ParsesBack("X86_32Architecture::fmt", X86_32ArchitectureFromStr,
                DerivedEq)
  /\ ParsesBack("Mips32Architecture::fmt", Mips32ArchitectureFromStr,
                DerivedEq)
  /\ ParsesBack("Mips64Architecture::fmt", Mips64ArchitectureFromStr,
                DerivedEq)
  /\ ParsesBack("Architecture::fmt", ArchitectureFromStr, DerivedEq)
  /\ ParsesBack("Vendor::fmt", VendorFromStr, VendorEq)
  /\ ParsesBack("OperatingSystem::fmt", OperatingSystemFromStr, DerivedEq)
  /\ ParsesBack("Environment::fmt", EnvironmentFromStr, DerivedEq)
  /\ ParsesBack("BinaryFormat::fmt", BinaryFormatFromStr, DerivedEq)

\* The part of C2 that the code keeps: the values other than a Custom vendor
\* whose text breaks the rules or is the name of a known vendor.
ValueRoundTripOfParsedValues ==
  (fn = "Vendor::fmt" /\ arg.tag = "Custom"
     /\ ~(ValidCustomText(as_str(arg.custom))
            /\ as_str(arg.custom) \notin KnownVendorNames))
  \/ C2_ValueRoundTrip

-----------------------------------------------------------------------------
(* C3 *)

\* The last call was of the Vendor parser and it returned Vendor::Custom.
ParsedCustomVendor ==
  Accepted("Vendor::from_str") /\ ret.val.tag = "Custom"

\* C3: custom vendor soundness.  If the Vendor parser returns
\* Vendor::Custom(t) for the input s, then t = s, s is not empty, its first
\* char is an ASCII lowercase letter, each of its chars is an ASCII lowercase
\* letter, an ASCII digit, '_' or '.', none of the Architecture,
\* OperatingSystem, Environment and BinaryFormat parsers accepts s, and s is
\* none of the eleven known vendor names.
C3_CustomVendorSound ==
  ParsedCustomVendor =>
    /\ as_str(ret.val.custom) = arg
    /\ arg # ""
    /\ SubSeq(arg, 1, 1) \in LowercaseLetters
    /\ \A i \in 1..Len(arg) :
         SubSeq(arg, i, i) \in
           LowercaseLetters \cup DecimalDigits \cup {"_", "."}
    /\ ~ArchitectureFromStr(arg).ok
    /\ ~OperatingSystemFromStr(arg).ok
    /\ ~EnvironmentFromStr(arg).ok
    /\ ~BinaryFormatFromStr(arg).ok
    /\ arg \notin KnownVendorNames

\* A token with a digit, '_' and '.' after its first letter became a custom
\* vendor.
C3_Witness == ParsedCustomVendor /\ arg = "my_vendor.v2"

-----------------------------------------------------------------------------
(* C4 *)

\* C4: custom vendor completeness.  Every string s that is no known vendor
\* name, is not empty, is accepted by none of the Architecture,
\* OperatingSystem, Environment and BinaryFormat parsers, starts with an
\* ASCII lowercase letter and has only ASCII lowercase letters, ASCII digits,
\* '_' and '.', is accepted by the Vendor parser as Vendor::Custom with the
\* text s, and the result formats as s.
C4_CustomVendorComplete ==
  (fn = "Vendor::from_str" /\ arg \notin KnownVendorNames
     /\ ValidCustomText(arg)) =>
    /\ ret.ok
    /\ ret.val.tag = "Custom"
    /\ as_str(ret.val.custom) = arg
    /\ VendorFmt(ret.val) = arg

\* One of the three tokens the specification names was parsed, to a custom
\* vendor of that text.
C4_Witness ==
  /\ fn = "Vendor::from_str"
  /\ arg \in {"customvendor", "ffi", "my_vendor.v2"}
  /\ ValidCustomText(arg)
  /\ ret = Ok(Custom(CustomVendorOf("Owned", arg)))

-----------------------------------------------------------------------------
(* C5 *)

\* C5: every Vendor::Custom value, made by the Vendor parser or written out
\* with CustomVendor::Owned or CustomVendor::Static, holds a text that keeps
\* the rules of a custom vendor.
C5_EveryCustomTextValid ==
  /\ ParsedCustomVendor => ValidCustomText(as_str(ret.val.custom))
  /\ fn = "Vendor::Custom" => ValidCustomText(as_str(ret.custom))

-----------------------------------------------------------------------------
(* C6 *)

\* C6: CustomVendor equality and hashing depend only on the text.  For all
\* CustomVendor values a and b, each Owned or Static, a == b exactly when
\* their texts are equal, and a == b implies hash(a) = hash(b); the hash of a
\* value is the hash of the Static value of its text; and a Vendor::Custom
\* that the parser returns equals Vendor::Custom(CustomVendor::Static(..)) of
\* the same text.
C6_EqAndHashByText ==
  /\ fn = "CustomVendor::eq" =>
       /\ ret = (arg[1].str = arg[2].str)
       /\ ret => CustomVendorHash(arg[1], <<>>) = CustomVendorHash(arg[2], <<>>)
  /\ fn = "CustomVendor::hash" =>
       ret = CustomVendorHash(CustomVendorOf("Static", arg.str), <<>>)
  /\ ParsedCustomVendor =>
       /\ VendorEq(ret.val, Custom(CustomVendorOf("Static", arg)))
       /\ VendorEq(Custom(CustomVendorOf("Static", arg)), ret.val)

\* An Owned and a Static value of the same text were compared, and are equal.
C6_Witness ==
  /\ fn = "CustomVendor::eq"
  /\ arg = <<CustomVendorOf("Owned", "foo"), CustomVendorOf("Static", "foo")>>
  /\ ret

-----------------------------------------------------------------------------
(* C7 *)

\* The operating systems the table of default_binary_format names.
WasmOperatingSystems == {"Nebulet", "Emscripten", "VxWorks", "Wasi", "Unknown"}

MachoOperatingSystems == {"Darwin", "Ios", "MacOSX"}

\* C7: default_binary_format equals the table for every architecture,
\* operating system and environment.  None_ gives Elf if the environment is
\* Eabi or Eabihf and Unknown otherwise; Darwin, Ios and MacOSX of any version
\* give Macho; Windows gives Coff; Nebulet, Emscripten, VxWorks, Wasi and
\* Unknown give Wasm if the architecture is Wasm32 or Wasm64 and Unknown
\* otherwise; every other operating system gives Elf.
C7_DefaultBinaryFormatTable ==
  fn = "default_binary_format" =>
    LET os == arg.operating_system.tag
        eabi == arg.environment \in {"Eabi", "Eabihf"}
        wasm == arg.architecture.tag \in {"Wasm32", "Wasm64"}
    IN  /\ (os = "None_" /\ eabi) => ret = "Elf"
        /\ (os = "None_" /\ ~eabi) => ret = "Unknown"
        /\ os \in MachoOperatingSystems => ret = "Macho"
        /\ os = "Windows" => ret = "Coff"
        /\ (os \in WasmOperatingSystems /\ wasm) => ret = "Wasm"
        /\ (os \in WasmOperatingSystems /\ ~wasm) => ret = "Unknown"
        /\ os \notin {"None_", "Windows"} \cup MachoOperatingSystems
                       \cup WasmOperatingSystems => ret = "Elf"

\* thumbv7em-none-eabihf: no operating system, an Eabihf environment, Elf.
C7_Witness ==
  /\ fn = "default_binary_format"
  /\ arg.architecture = Sub("Arm", "Thumbv7em")
  /\ arg.operating_system = Unit("None_")
  /\ arg.environment = "Eabihf"
  /\ ret = "Elf"

-----------------------------------------------------------------------------
(* C8 *)

\* C8: Architecture::endianness and Architecture::pointer_width each fail
\* for exactly one value, Architecture::Unknown; for every other value, with
\* every sub-architecture of Arm, Aarch64, X86_32, Mips32, Mips64, Riscv32
\* and Riscv64, both succeed.
C8_AttributesFailOnlyForUnknown ==
  /\ fn = "Architecture::endianness" =>
       /\ ret.ok <=> arg # Unit("Unknown")
       /\ ret.ok => ret.val \in Endianness
  /\ fn = "Architecture::pointer_width" =>
       /\ ret.ok <=> arg # Unit("Unknown")
       /\ ret.ok => ret.val \in PointerWidth

\* endianness was asked of Architecture::Unknown and failed.
C8_Witness ==
  /\ fn = "Architecture::endianness"
  /\ arg = Unit("Unknown")
  /\ ret = Err

-----------------------------------------------------------------------------
(* C9 *)

\* The width buckets that hold the architecture a, by pointer_width.
WidthBuckets(a) == {w \in PointerWidth : ArchitecturePointerWidth(a) = Ok(w)}

\* C9, as stated: every Architecture tag, with no exception, has a pointer
\* width: pointer_width puts every tag in exactly one of the 16-, 32- and
\* 64-bit buckets (only endianness may be undefined, for Unknown).
C9_EveryTagHasPointerWidth ==
  fn = "Architecture::pointer_width" =>
    /\ ret.ok
    /\ Cardinality(WidthBuckets(arg)) = 1

\* C9, amended: every Architecture tag except Unknown has a pointer width:
\* pointer_width puts it in exactly one of the 16-, 32- and 64-bit buckets;
\* for Unknown pointer_width fails, as endianness does, and Unknown is in no
\* bucket.
C9_EveryKnownTagHasPointerWidth ==
  fn = "Architecture::pointer_width" =>
    IF arg = Unit("Unknown")
      THEN ret = Err /\ WidthBuckets(arg) = {}
           /\ ArchitectureEndianness(arg) = Err
      ELSE ret.ok /\ WidthBuckets(arg) = {ret.val}
           /\ Cardinality(WidthBuckets(arg)) = 1

\* pointer_width was asked of Architecture::Unknown and failed.
C9_Witness ==
  /\ fn = "Architecture::pointer_width"
  /\ arg = Unit("Unknown")
  /\ ~ret.ok

-----------------------------------------------------------------------------
(* C10 *)

\* The parts of r between its dots, from left to right, by their bounds: part
\* k runs from after the (k-1)th dot to before the kth.
DotPositions(r) == {i \in 1..Len(r) : SubSeq(r, i, i) = "."}

NthDot(r, k) ==
  IF k = 0 THEN 0
  ELSE IF k > Cardinality(DotPositions(r)) THEN Len(r) + 1
  ELSE CHOOSE i \in DotPositions(r) :
         Cardinality({j \in DotPositions(r) : j <= i}) = k

DottedPart(r, k) == SubSeq(r, NthDot(r, k - 1) + 1, NthDot(r, k) - 1)

\* An unsigned decimal integer: one decimal digit or more, and nothing else.
IsDecimalNumeral(p) ==
  p # "" /\ \A i \in 1..Len(p) : SubSeq(p, i, i) \in DecimalDigits

\* The number a decimal numeral writes.
RECURSIVE NumeralValue(_)
NumeralValue(p) ==
  IF p = "" THEN 0
  ELSE NumeralValue(SubSeq(p, 1, Len(p) - 1)) * 10
         + (CHOOSE d \in 0..9 : SubSeq("0123456789", d + 1, d + 1)
                                  = SubSeq(p, Len(p), Len(p)))

\* Digits(p) is the digits of the part p: r is exactly three dot-separated
\* numerals, each of a number that fits in 16 bits.
ThreeNumerals(r, Digits(_)) ==
  /\ Cardinality(DotPositions(r)) = 2
  /\ \A k \in 1..3 :
       /\ IsDecimalNumeral(Digits(DottedPart(r, k)))
       /\ NumeralValue(Digits(DottedPart(r, k))) < 2^16

\* The call of the OperatingSystem parser on "macosx" followed by the
\* remainder r accepts exactly when r is three numerals, and then returns
\* MacOSX of their three numbers.
MacOSXParsedAs(Digits(_)) ==
  (fn = "OperatingSystem::from_str" /\ Len(arg) >= 6
     /\ SubSeq(arg, 1, 6) = "macosx") =>
    LET r == SubSeq(arg, 7, Len(arg))
        number(k) == NumeralValue(Digits(DottedPart(r, k)))
    IN  /\ ret.ok <=> ThreeNumerals(r, Digits)
        /\ ret.ok => ret.val = MacOSX(number(1), number(2), number(3))

\* The digits of an unsigned decimal integer are all of it.
Unsigned(p) == p

\* C10: MacOSX parsing.  The OperatingSystem parser accepts a string that
\* begins with "macosx" only if the remainder is exactly three dot-separated
\* unsigned decimal integers that each fit in 16 bits, and then returns
\* MacOSX with those three numbers; fewer than three parts, more than three
\* parts, an empty or non-numeric part, and a part greater than 65535 are
\* parse failures; "macosx10.7.0" parses to MacOSX{major: 10, minor: 7,
\* patch: 0}.
C10_MacOSXParsing ==
  /\ MacOSXParsedAs(Unsigned)
  /\ (fn = "OperatingSystem::from_str" /\ arg = "macosx10.7.0") =>
       ret = Ok(MacOSX(10, 7, 0))
  /\ (fn = "OperatingSystem::from_str"
        /\ arg \in {"macosx", "macosx10.7", "macosx10.7.0.1"}) => ~ret.ok

\* The digits of a numeral that may have a '+' before them, which is what
\* u16's from_str takes.
AfterPlus(p) ==
  IF p # "" /\ SubSeq(p, 1, 1) = "+" THEN SubSeq(p, 2, Len(p)) ELSE p

\* The part of C10 that the code keeps: C10 with a '+' allowed before the
\* digits of each number.
MacOSXParsingUpToSign ==
  /\ MacOSXParsedAs(AfterPlus)
  /\ (fn = "OperatingSystem::from_str" /\ arg = "macosx10.7.0") =>
       ret = Ok(MacOSX(10, 7, 0))
  /\ (fn = "OperatingSystem::from_str"
        /\ arg \in {"macosx", "macosx10.7", "macosx10.7.0.1"}) => ~ret.ok


-----------------------------------------------------------------------------
(* C11 *)

\* The last call was of the OperatingSystem parser and it returned a MacOSX
\* value.
ParsedMacOSX ==
  Accepted("OperatingSystem::from_str") /\ ret.val.tag = "MacOSX"

\* C11: only the canonical form parses to a MacOSX value.  For every string
\* s for which the OperatingSystem parser returns MacOSX{major, minor, patch},
\* s is the formatter output "macosx<major>.<minor>.<patch>" of that value:
\* no other spelling of the numbers, with leading zeros or a sign, is
\* accepted.
C11_OnlyCanonicalMacOSX ==
  ParsedMacOSX => arg = OperatingSystemFmt(ret.val)

\* The numeral p without its '+' and its leading zeros.
CanonicalNumeral(p) == U16Fmt(NumeralValue(AfterPlus(p)))

\* The part of C11 that the code keeps: the string that parsed to a MacOSX
\* value is the canonical one once the '+' and the leading zeros of each of
\* its three numbers are taken away.
OnlyCanonicalMacOSXUpToSpelling ==
  ParsedMacOSX =>
    LET r == SubSeq(arg, 7, Len(arg))
    IN  "macosx" \o CanonicalNumeral(DottedPart(r, 1)) \o "."
          \o CanonicalNumeral(DottedPart(r, 2)) \o "."
          \o CanonicalNumeral(DottedPart(r, 3)) = OperatingSystemFmt(ret.val)

-----------------------------------------------------------------------------
(* C12 *)

\* C12: the AArch64 alias is one-directional.  The Aarch64Architecture parser
\* and the Architecture parser both map "arm64" and "aarch64" to the same
\* Aarch64 value, no value of Aarch64Architecture or of Architecture formats
\* as "arm64", and the Aarch64 value formats as "aarch64".
C12_Arm64AliasParseOnly ==
  /\ (fn = "Aarch64Architecture::from_str" /\ arg \in {"arm64", "aarch64"}) =>
       ret = Ok("Aarch64")
  /\ (fn = "Architecture::from_str" /\ arg \in {"arm64", "aarch64"}) =>
       ret = Ok(Sub("Aarch64", "Aarch64"))
  /\ fn = "Aarch64Architecture::fmt" =>
       /\ ret # "arm64"
       /\ arg = "Aarch64" => ret = "aarch64"
  /\ fn = "Architecture::fmt" =>
       /\ ret # "arm64"
       /\ arg = Sub("Aarch64", "Aarch64") => ret = "aarch64"

\* The Architecture parser took the alias and returned the Aarch64 value,
\* which formats as "aarch64".
C12_Witness ==
  /\ fn = "Architecture::from_str"
  /\ arg = "arm64"
  /\ ret = Ok(Sub("Aarch64", "Aarch64"))
  /\ ArchitectureFmt(ret.val) = "aarch64"

-----------------------------------------------------------------------------
(* C13 *)

\* The Architecture values whose canonical string is s.
ArchitecturesFormattedAs(s) == {b \in Architecture : ArchitectureFmt(b) = s}

\* C13: the Architecture formatter is injective.  No two distinct
\* Architecture values, the flat tags and every sub-architecture variant of
\* the seven families, have the same canonical string.
C13_ArchitectureFmtInjective ==
  fn = "Architecture::fmt" => ArchitecturesFormattedAs(ret) = {arg}

\* A nested MIPS64 variant was formatted, and no other value has its string.
C13_Witness ==
  /\ fn = "Architecture::fmt"
  /\ arg = Sub("Mips64", "Mipsisa64r6el")
  /\ ret = "mipsisa64r6el"
  /\ Cardinality(ArchitecturesFormattedAs(ret)) = 1

-----------------------------------------------------------------------------
(* C14 *)

\* The call of parser f accepted its argument exactly when the argument is a
\* string that Fmt produces for one of Values, or one of Aliases.
AcceptsExactly(f, Values, Fmt(_), Aliases) ==
  fn = f => (ret.ok <=> arg \in {Fmt(v) : v \in Values} \cup Aliases)

BeginsWithMacOSX(s) == Len(s) >= 6 /\ SubSeq(s, 1, 6) = "macosx"

\* C14: the codec is exact-match and case-sensitive.  For Architecture,
\* Environment, BinaryFormat, the seven sub-architecture parsers and, on
\* strings that do not start with "macosx", OperatingSystem, the accepted
\* strings are exactly the formatter outputs and the one alias "arm64" (of
\* Aarch64): a string made from an accepted one by a change of letter case,
\* by whitespace before or after it, by cutting it short or by appending
\* chars is rejected unless it is a formatter output or the alias itself.
C14_ExactMatch ==
  /\ AcceptsExactly("ArmArchitecture::from_str", ArmArchitecture,
                    ArmArchitectureFmt, {})
  /\ AcceptsExactly("Aarch64Architecture::from_str", Aarch64Architecture,
                    Aarch64ArchitectureFmt, {"arm64"})
  /\ AcceptsExactly("Riscv32Architecture::from_str", Riscv32Architecture,
                    Riscv32ArchitectureFmt, {})
  /\ AcceptsExactly("Riscv64Architecture::from_str", Riscv64Architecture,
                    Riscv64ArchitectureFmt, {})
  /\ AcceptsExactly("X86_32Architecture::from_str", X86_32Architecture,
                    X86_32ArchitectureFmt, {})
  /\ AcceptsExactly("Mips32Architecture::from_str", Mips32Architecture,
                    Mips32ArchitectureFmt, {})
  /\ AcceptsExactly("Mips64Architecture::from_str", Mips64Architecture,
                    Mips64ArchitectureFmt, {})
  /\ AcceptsExactly("Architecture::from_str", Architecture, ArchitectureFmt,
                    {"arm64"})
  /\ AcceptsExactly("Environment::from_str", Environment, EnvironmentFmt, {})
  /\ AcceptsExactly("BinaryFormat::from_str", BinaryFormat, BinaryFormatFmt,
                    {})
  /\ (fn = "OperatingSystem::from_str" /\ ~BeginsWithMacOSX(arg)) =>
       AcceptsExactly("OperatingSystem::from_str",
                      {Unit(t) : t \in OperatingSystemUnitTags},
                      OperatingSystemFmt, {})

\* "elf" with a space after it was given to the BinaryFormat parser, which
\* accepts "elf", and was rejected.
C14_Witness ==
  /\ fn = "BinaryFormat::from_str"
  /\ arg = "elf "
  /\ BinaryFormatFromStr("elf").ok
  /\ ~ret.ok

-----------------------------------------------------------------------------
(* C15 *)

\* The variant of a value of an enum without data, or of an Architecture
\* value (its tag and the variant of its sub-architecture), is the value.
SameValue(v) == v

\* The variant of a Vendor or OperatingSystem value.
TagOf(v) == v.tag

\* The call of formatter f was on a value of a variant that has a string,
\* the one just formatted or one of the tokens of the tests, that Parse maps
\* to a value of that variant and that Fmt produces for that value.
VariantCovered(f, Parse(_), Fmt(_), Variant(_)) ==
  fn = f =>
    \E s \in {ret} \cup TestTokens :
      /\ Parse(s).ok
      /\ Variant(Parse(s).val) = Variant(arg)
      /\ Fmt(Parse(s).val) = s

\* C15: exhaustive coverage.  For every variant of every component type
\* (each Architecture tag and sub-architecture variant, each Vendor variant
\* with Custom, each OperatingSystem variant with MacOSX, each Environment
\* and BinaryFormat variant) there is a string that the component parser maps
\* to a value of that variant and that the formatter produces for that value.
C15_EveryVariantCovered ==
  /\ VariantCovered("ArmArchitecture::fmt", ArmArchitectureFromStr,
                    ArmArchitectureFmt, SameValue)
  /\ VariantCovered("Aarch64Architecture::fmt", Aarch64ArchitectureFromStr,
                    Aarch64ArchitectureFmt, SameValue)
  /\ VariantCovered("Riscv32Architecture::fmt", Riscv32ArchitectureFromStr,
                    Riscv32ArchitectureFmt, SameValue)
  /\ VariantCovered("Riscv64Architecture::fmt", Riscv64ArchitectureFromStr,
                    Riscv64ArchitectureFmt, SameValue)
  /\ VariantCovered("X86_32Architecture::fmt", X86_32ArchitectureFromStr,
                    X86_32ArchitectureFmt, SameValue)
  /\ VariantCovered("Mips32Architecture::fmt", Mips32ArchitectureFromStr,
                    Mips32ArchitectureFmt, SameValue)
  /\ VariantCovered("Mips64Architecture::fmt", Mips64ArchitectureFromStr,
                    Mips64ArchitectureFmt, SameValue)
  /\ VariantCovered("Architecture::fmt", ArchitectureFromStr,
                    ArchitectureFmt, SameValue)
  /\ VariantCovered("Vendor::fmt", VendorFromStr, VendorFmt, TagOf)
  /\ VariantCovered("OperatingSystem::fmt", OperatingSystemFromStr,
                    OperatingSystemFmt, TagOf)
  /\ VariantCovered("Environment::fmt", EnvironmentFromStr, EnvironmentFmt,
                    SameValue)
  /\ VariantCovered("BinaryFormat::fmt", BinaryFormatFromStr,
                    BinaryFormatFmt, SameValue)

\* A Custom vendor whose own text no parser call returns was formatted, and
\* the Custom variant has a string all the same.
C15_Witness ==
  /\ fn = "Vendor::fmt"
  /\ arg = Custom(CustomVendorOf("Static", ""))
  /\ ~VendorFromStr(ret).ok
  /\ VendorFromStr("customvendor").ok
  /\ VendorFromStr("customvendor").val.tag = "Custom"
  /\ VendorFmt(VendorFromStr("customvendor").val) = "customvendor"

-----------------------------------------------------------------------------
(* C16 *)

\* The three big-endian names of ARM.
BigEndianArm == {"Armeb", "Armebv7r", "Thumbeb"}

\* C16: ArmArchitecture::endianness returns Big for exactly the three
\* variants Armeb, Armebv7r and Thumbeb and Little for every other ARM
\* variant, and Architecture::Arm(a).endianness() returns that same value as
\* a success for every ARM variant a.
C16_ArmEndianness ==
  /\ fn = "ArmArchitecture::endianness" =>
       ret = IF arg \in BigEndianArm THEN "Big" ELSE "Little"
  /\ (fn = "Architecture::endianness" /\ arg.tag = "Arm") =>
       /\ ret = Ok(IF arg.sub \in BigEndianArm THEN "Big" ELSE "Little")
       /\ ret = Ok(ArmArchitectureEndianness(arg.sub))

\* endianness was asked of Architecture::Arm(Thumbeb) and is Big.
C16_Witness ==
  /\ fn = "Architecture::endianness"
  /\ arg = Sub("Arm", "Thumbeb")
  /\ ret = Ok("Big")

-----------------------------------------------------------------------------
(* C17 *)

\* The ARM variants that is_thumb classifies as b.
ArmEncodedAs(b) == {a \in ArmArchitecture : ArmArchitectureIsThumb(a) = b}

\* When is_thumb is called, ArmArchitecture has n variants and is_thumb
\* partitions them: each is Thumb-encoded (true) or standard-encoded (false)
\* and not both, and the call returns the class of its variant.
IsThumbPartitions(n) ==
  fn = "ArmArchitecture::is_thumb" =>
    /\ Cardinality(ArmArchitecture) = n
    /\ ArmEncodedAs(TRUE) \cup ArmEncodedAs(FALSE) = ArmArchitecture
    /\ ArmEncodedAs(TRUE) \cap ArmEncodedAs(FALSE) = {}
    /\ Cardinality(ArmEncodedAs(TRUE)) + Cardinality(ArmEncodedAs(FALSE)) = n
    /\ ret \in BOOLEAN
    /\ arg \in ArmEncodedAs(ret)

\* C17, as stated: ArmArchitecture has 40 variants and is_thumb partitions
\* them: each of the 40 is classified as exactly one of Thumb-encoded (true)
\* and standard-encoded (false).
C17_FortyArmVariants == IsThumbPartitions(40)

\* C17, amended: ArmArchitecture has 39 variants and is_thumb partitions
\* them: each of the 39 is classified as exactly one of Thumb-encoded (true)
\* and standard-encoded (false).
C17_ThirtyNineArmVariants == IsThumbPartitions(39)

\* is_thumb was asked of a Thumb-encoded and of a standard-encoded variant
\* (this is the state of the first), and there are variants of both classes.
C17_Witness ==
  /\ fn = "ArmArchitecture::is_thumb"
  /\ arg = "Thumbv7em"
  /\ ret = TRUE
  /\ ArmEncodedAs(FALSE) # {}

-----------------------------------------------------------------------------
(* C18 *)

\* The endianness that C18 gives the two variants of AArch64.
Aarch64EndiannessOf(a) == IF a = "Aarch64be" THEN "Big" ELSE "Little"

\* C18: AArch64 has exactly two variants: Aarch64 is little-endian and
\* Aarch64be is big-endian, both have a 64-bit pointer width, and
\* Architecture::Aarch64(a).endianness() and .pointer_width() succeed with
\* exactly those values.
C18_Aarch64Attributes ==
  /\ fn = "Aarch64Architecture::endianness" =>
       /\ Aarch64Architecture = {"Aarch64", "Aarch64be"}
       /\ Cardinality(Aarch64Architecture) = 2
       /\ ret = Aarch64EndiannessOf(arg)
  /\ fn = "Aarch64Architecture::pointer_width" => ret = "U64"
  /\ (fn = "Architecture::endianness" /\ arg.tag = "Aarch64") =>
       ret = Ok(Aarch64EndiannessOf(arg.sub))
  /\ (fn = "Architecture::pointer_width" /\ arg.tag = "Aarch64") =>
       ret = Ok("U64")

\* pointer_width was asked of Architecture::Aarch64(Aarch64be) and is 64
\* bits, and the endianness of the variant is Big.
C18_Witness ==
  /\ fn = "Architecture::pointer_width"
  /\ arg = Sub("Aarch64", "Aarch64be")
  /\ ret = Ok("U64")
  /\ ArchitectureEndianness(arg) = Ok("Big")

-----------------------------------------------------------------------------
(* C19 *)

\* What each of the eight attempts of the Architecture parser makes of s:
\* the flat table, and the seven sub-architecture parsers with their results
\* wrapped in the tag of their family.
Wrapped(tag, r) == IF r.ok THEN Ok(Sub(tag, r.val)) ELSE Err

ArchitectureAttempts(s) ==
  [Flat |-> ArchitectureFlatFromStr(s),
   Arm |-> Wrapped("Arm", ArmArchitectureFromStr(s)),
   Aarch64 |-> Wrapped("Aarch64", Aarch64ArchitectureFromStr(s)),
   Riscv32 |-> Wrapped("Riscv32", Riscv32ArchitectureFromStr(s)),
   Riscv64 |-> Wrapped("Riscv64", Riscv64ArchitectureFromStr(s)),
   X86_32 |-> Wrapped("X86_32", X86_32ArchitectureFromStr(s)),
   Mips32 |-> Wrapped("Mips32", Mips32ArchitectureFromStr(s)),
   Mips64 |-> Wrapped("Mips64", Mips64ArchitectureFromStr(s))]

\* The attempts that accept s.
Accepting(s) ==
  {k \in DOMAIN ArchitectureAttempts(s) : ArchitectureAttempts(s)[k].ok}

\* C19: Architecture parsing is order-independent.  For every string s at
\* most one of the flat table and the seven sub-architecture parsers accepts
\* s, so the value that the Architecture parser returns, the first success in
\* its fixed order in the tag of its family, is what any other order of the
\* attempts returns, and the parser fails exactly when none accepts s.
C19_ArchitectureOrderIndependent ==
  fn = "Architecture::from_str" =>
    /\ Cardinality(Accepting(arg)) <= 1
    /\ ret.ok <=> Accepting(arg) # {}
    /\ \A k \in Accepting(arg) : ret = ArchitectureAttempts(arg)[k]

\* "mipsel" was parsed: the MIPS32 parser, the sixth that is tried, is the
\* only one that accepts it.
C19_Witness ==
  /\ fn = "Architecture::from_str"
  /\ arg = "mipsel"
  /\ Accepting(arg) = {"Mips32"}
  /\ ret = Ok(Sub("Mips32", "Mipsel"))

-----------------------------------------------------------------------------
(* C20 *)

\* C20: default_binary_format is total and ignores everything but the
\* inference inputs.  It returns a format for every triple; two triples that
\* agree on architecture, operating system and environment and differ in
\* vendor or in the binary_format field have the same result; the result
\* does not depend on the numbers of a MacOSX version; it depends on the
\* environment only when the operating system is None_, and on the
\* architecture only when the operating system is one of Nebulet,
\* Emscripten, VxWorks, Wasi and Unknown; and it is Wasm only when the
\* architecture is Wasm32 or Wasm64.
C20_DefaultBinaryFormatInputs ==
  fn = "default_binary_format" =>
    /\ ret \in BinaryFormat
    /\ \A v \in TripleVendors, b \in TripleBinaryFormats :
         default_binary_format([arg EXCEPT !.vendor = v,
                                           !.binary_format = b]) = ret
    /\ arg.operating_system.tag = "MacOSX" =>
         \A ma \in VersionNumbers, mi \in VersionNumbers, pa \in VersionNumbers :
           default_binary_format(
             [arg EXCEPT !.operating_system = MacOSX(ma, mi, pa)]) = ret
    /\ arg.operating_system.tag # "None_" =>
         \A e \in Environment :
           default_binary_format([arg EXCEPT !.environment = e]) = ret
    /\ arg.operating_system.tag \notin WasmOperatingSystems =>
         \A a \in Architecture :
           default_binary_format([arg EXCEPT !.architecture = a]) = ret
    /\ ret = "Wasm" => arg.architecture.tag \in {"Wasm32", "Wasm64"}

\* The format of a Linux triple with a custom vendor and a Coff
\* binary_format field was inferred: Elf, as for the same triple with the
\* vendor and the field Unknown.
C20_Witness ==
  /\ fn = "default_binary_format"
  /\ arg.operating_system = Unit("Linux")
  /\ arg.vendor = Custom(CustomVendorOf("Static", "foo"))
  /\ arg.binary_format = "Coff"
  /\ ret = "Elf"
  /\ default_binary_format([arg EXCEPT !.vendor = Unit("Unknown"),
                                       !.binary_format = "Unknown"]) = ret

-----------------------------------------------------------------------------
(* C21 *)

\* v is a value of enum Vendor.
IsVendor(v) ==
  \/ v \in {Unit(t) : t \in VendorUnitTags}
  \/ /\ DOMAIN v = {"tag", "custom"}
     /\ v.tag = "Custom"
     /\ DOMAIN v.custom = {"repr", "str"}
     /\ v.custom.repr \in CustomVendorReprs
     /\ v.custom.str \in STRING

\* C21: Vendor::from_str never panics: on every input string, the empty
\* string and strings of non-ASCII code points included, it returns a Vendor
\* or the failure value; and a token that is not settled by the table of
\* known names, by the emptiness check or by the reserved-vocabulary check,
\* which all come before the unwrap, has a first char to unwrap.
C21_VendorFromStrNeverPanics ==
  fn = "Vendor::from_str" =>
    /\ ret # Panicked
    /\ ret = Err \/ (ret.ok /\ IsVendor(ret.val))
    /\ (arg \notin KnownVendorNames /\ arg # "" /\ ~ReservedVocabulary(arg))
         => chars_next(arg).some

\* Vendor::from_str was called on the empty string, which no table names,
\* and returned the failure value.
C21_Witness ==
  /\ fn = "Vendor::from_str"
  /\ arg = ""
  /\ ~ReservedVocabulary(arg)
  /\ ret = Err

-----------------------------------------------------------------------------
(* C22 *)

ComponentParsers ==
  {"Architecture::from_str", "OperatingSystem::from_str",
   "Environment::from_str", "BinaryFormat::from_str"}

\* The parsers among ComponentParsers that accept s.
ComponentsAccepting(s) ==
  {p \in ComponentParsers :
     CASE p = "Architecture::from_str" -> ArchitectureFromStr(s).ok
       [] p = "OperatingSystem::from_str" -> OperatingSystemFromStr(s).ok
       [] p = "Environment::from_str" -> EnvironmentFromStr(s).ok
       [] p = "BinaryFormat::from_str" -> BinaryFormatFromStr(s).ok}

\* C22: the vocabularies of the components overlap only on "unknown": a
\* string that more than one of the Architecture, OperatingSystem,
\* Environment and BinaryFormat parsers accept is "unknown", which all four
\* accept; a known vendor name that one of the four accepts is "unknown";
\* and Vendor::from_str returns for every known vendor name, "unknown"
\* included, the known variant of that name, never the failure of the
\* reserved-vocabulary check.
C22_VocabulariesOverlapOnlyOnUnknown ==
  /\ (fn \in ComponentParsers /\ ret.ok) =>
       /\ fn \in ComponentsAccepting(arg)
       /\ ComponentsAccepting(arg) # {fn} => arg = "unknown"
       /\ arg \in KnownVendorNames => arg = "unknown"
  /\ (fn \in ComponentParsers /\ arg = "unknown") => ret.ok
  /\ (fn = "Vendor::from_str" /\ arg \in KnownVendorNames) =>
       /\ ReservedVocabulary(arg) <=> arg = "unknown"
       /\ ret.ok
       /\ ret.val \in {Unit(t) : t \in VendorUnitTags}
       /\ VendorFmt(ret.val) = arg

\* Vendor::from_str was called on "unknown", which all four other parsers
\* accept, and returned Vendor::Unknown.
C22_Witness ==
  /\ fn = "Vendor::from_str"
  /\ arg = "unknown"
  /\ ComponentsAccepting(arg) = ComponentParsers
  /\ ret = Ok(Unit("Unknown"))

-----------------------------------------------------------------------------
(* C23 *)

\* The canonical name of the ARM variant a begins with p.
ArmNameBeginsWith(a, p) == starts_with(ArmArchitectureFmt(a), p)

\* C23: the ARM lookup tables agree with the canonical names: for every
\* ArmArchitecture variant a, is_thumb(a) is true exactly when the Display
\* of a begins with "thumb", and endianness(a) is Big exactly when the
\* Display of a begins with "armeb" or "thumbeb".
C23_ArmTablesAgreeWithNames ==
  /\ fn = "ArmArchitecture::is_thumb" =>
       /\ arg \in ArmArchitecture
       /\ ret <=> ArmNameBeginsWith(arg, "thumb")
  /\ fn = "ArmArchitecture::endianness" =>
       /\ arg \in ArmArchitecture
       /\ ret \in {"Big", "Little"}
       /\ ret = "Big" <=> \/ ArmNameBeginsWith(arg, "armeb")
                          \/ ArmNameBeginsWith(arg, "thumbeb")

\* endianness was asked of Thumbeb, whose name "thumbeb" begins with
\* "thumb" and with "thumbeb": it is Big, and is_thumb of it is true.
C23_Witness ==
  /\ fn = "ArmArchitecture::endianness"
  /\ arg = "Thumbeb"
  /\ ArmArchitectureFmt(arg) = "thumbeb"
  /\ ret = "Big"
  /\ ArmArchitectureIsThumb(arg)
=============================================================================
